---- MODULE Spec2Model ----
(***************************************************************************)
(* State-machine model of the PlotJuggler ingestion plugins.               *)
(*                                                                         *)
(* Part 1: WebsocketClient (DataStreamWebsocketBridge/websocket_client.cpp)*)
(* The client is single-threaded and event-loop driven: every action below *)
(* is one complete handler (Qt slot, timer callback, dialog button handler *)
(* or public method), including every call it makes.  The PJ_BUILD variant *)
(* of the code is modelled (topic parsers exist).                          *)
(***************************************************************************)
EXTENDS Integers, Sequences, FiniteSets, TLC

\* ------------------------------------------------------------------ bounds
\* Request ids are fresh UUIDs (QUuid::createUuid); the model numbers them
\* 1, 2, ... and stops sending once MaxId ids have been used.
MaxId == 3

\* An id the client never issued (a foreign UUID).
ForeignId == MaxId + 1

\* Part 2 (the binary slot, block by block): payload blocks per frame and
\* frames received.
MaxBlocks == 2
MaxFrames == 2

\* Part 3 (CSV header normalization): fields of a header line.
MaxFields == 3

\* Part 4 (CSV row loop): lines after the header.
MaxLines == 3

\* Longest line given to DetectDelimiter, over all its candidate characters.
MaxChars == 4

\* Longest line given to SplitLine, over quotes, separators, spaces, letters.
MaxQuoted == 6

\* pushBack calls on a string series between two clear() calls.
MaxPushes == 3

\* The empty QString (sendCommand's "could not send" result, a cleared id).
NoId == 0

\* Topics the server may advertise, in the order the dialog lists them.
TopicOrder == <<"/a", "/b">>
Topics == {TopicOrder[i] : i \in 1..Len(TopicOrder)}

\* WsState::Mode
Modes == {"GetTopics", "Subscribe", "Data", "Close"}

\* Schema encodings a subscribe response may carry:
\*   "cdr": a parser factory is registered and creates a parser;
\*   "unk": no factory is registered for the encoding;
\*   "bad": a factory is registered and createParser throws.
Encodings == {"cdr", "unk", "bad"}

\* QAbstractSocket::SocketState of _socket
SockStates == {"Unconnected", "Connecting", "Connected", "Closing"}

\* Commands that the protocol answers with a reply (heartbeat has none).
ReplyCommands == {"get_topics", "subscribe", "pause", "resume"}

VARIABLES
  running,             \* _running
  paused,              \* _paused
  closing,             \* _closing
  mode,                \* _state.mode
  req_in_flight,       \* _state.req_in_flight
  pending_request_id,  \* _pending_request_id (NoId = empty)
  pending_mode,        \* _pending_mode
  topics_timer,        \* _topics_timer.isActive()
  heartbeat_timer,     \* _heartbeat_timer.isActive()
  topics,              \* _topics: sequence of [name, enc]; enc = "" before the schema is filled
  parsers,             \* keys of _parsers_topic
  warned,              \* the static set `warned` of createParsersForTopics
  config_topics,       \* _config.topics
  dialog,              \* _dialog != nullptr (start() is inside dialog.exec())
  items,               \* names listed in the dialog's topic list
  selected,            \* selected names of the dialog's topic list
  ok_enabled,          \* the dialog's OK button is enabled
  sock,                \* _socket.state()
  next_id,             \* next fresh request id
  outstanding,         \* reply-expecting commands on the wire not yet answered
  last,                \* the handler that ran last, with the state it ran in
  out,                 \* what the last handler showed, sent and emitted
  stopped,             \* a shutdown was requested and no connect since
  alive,               \* the process has not been terminated by an escaped exception
  dec_pc,              \* where the binary slot is: "idle", "lock" or "loop"
  dec_frame,           \* the binary frame being decoded (or decoded last)
  dec_no,              \* its number in arrival order
  dec_q,               \* q: payload blocks consumed so far by the parse loop
  dec_parsed,          \* parsed: the loop's block counter
  mutex,               \* owner of DataStreamer::mutex(): "free", "decoder", "consumer"
  sink,                \* messages handed to topic parsers: the frame number of each
  dec_call,            \* the loop's last block: the parseMessage call made for it
  snapshot,            \* the consumer's last copy of the sink, taken under the mutex
  hdr_pc,              \* header normalization: "start", "parsed" or "again"
  hdr_slices,          \* the header line: its slices between the delimiters
  hdr_names,           \* result.column_names = ParseHeaderLine(header_line, delimiter)
  hdr_warned,          \* result.warnings holds DUPLICATE_COLUMN_NAMES
  hdr_again,           \* ParseHeaderLine of the header formed from hdr_names
  csv_pc,              \* ParseCsvData: "idle", "start", "rows" (in the row loop) or "done"
  csv_config,          \* config, and whether a progress callback was passed
  column_types,        \* column_types[i].type
  prev_time,           \* prev_time
  linenumber,          \* linenumber
  samplecount,         \* samplecount
  result,              \* the CsvParseResult being built
  csv_seen,            \* history: non-empty lines met, timestamps parsed, cancelled
  txt_pc,              \* a line of text: "idle", "start", "detected" or "split"
  txt_line,            \* first_line / line: its characters
  txt_delim,           \* the result of DetectDelimiter(first_line)
  txt_separator,       \* the separator SplitLine was called with
  txt_parts,           \* parts after SplitLine(line, separator, parts)
  points,              \* StringSeries::_points: [x, y] with y a StringDictIndex
  index_to_string,     \* StringSeries::_index_to_string
  string_to_index,     \* StringSeries::_string_to_index: pairs <<string, index>>
  pushed               \* history: the pushBack calls since the last clear()

core == <<running, paused, closing, mode, req_in_flight, pending_request_id,
          pending_mode, topics_timer, heartbeat_timer, topics, parsers>>
dlg == <<dialog, items, selected, ok_enabled>>
net == <<sock, next_id, outstanding>>
decoder == <<dec_pc, dec_frame, dec_no, dec_q, dec_parsed, mutex, sink, snapshot,
             dec_call>>
client == <<core, warned, config_topics, dlg, net, last, out, stopped, alive>>
header == <<hdr_pc, hdr_slices, hdr_names, hdr_warned, hdr_again>>
rows == <<csv_pc, csv_config, column_types, prev_time, linenumber, samplecount,
          result, csv_seen>>
text == <<txt_pc, txt_line, txt_delim, txt_separator, txt_parts>>
series == <<points, index_to_string, string_to_index, pushed>>
files == <<header, rows, text, series>>
vars == <<client, decoder, files>>

\* The fields the spec calls the client's state (WsState, topic table, timers).
wsState == <<mode, req_in_flight, pending_request_id, pending_mode, topics,
             parsers, topics_timer, heartbeat_timer>>

\* ------------------------------------------------------------ text frames
\* A JSON text frame that parses to an object: protocol_version, id, status
\* and the body ("topics" array, "schemas" object keyed by topic, or neither).
SchemaMaps == UNION {[S -> Encodings] : S \in SUBSET Topics}

Msgs ==
  {[id |-> i, version |-> 1, status |-> "success", kind |-> "topics", names |-> S, enc |-> <<>>] :
      i \in 0..ForeignId, S \in SUBSET Topics}
  \cup
  {[id |-> i, version |-> 1, status |-> "success", kind |-> "schemas", names |-> DOMAIN e, enc |-> e] :
      i \in 0..ForeignId, e \in SchemaMaps}
  \cup
  {[id |-> i, version |-> v, status |-> s, kind |-> "none", names |-> {}, enc |-> <<>>] :
      i \in 0..ForeignId, v \in {1, 2}, s \in {"success", "error", "other"}}

\* ---------------------------------------------------------- binary frames
\* A payload block [u16 topic_name_len][topic_name][u64 ts_ns][u32 cdr_len]
\* [cdr]: the topic it names and whether the topic's parser throws on its CDR
\* bytes.  Topic names are two bytes long and each block carries one CDR byte.
Blocks == [topic : Topics, throws : BOOLEAN]

\* Bytes of one block: 2 (name_len) + 2 (name) + 8 (ts_ns) + 4 (cdr_len) + 1.
BlockBytes == 2 + 2 + 8 + 4 + 1

\* What stops a frame before its payload is parsed:
\*   "short":   fewer than 16 bytes;      "magic": magic is not "PJRB";
\*   "flags":   flags are not 0;          "empty": nothing after the header;
\*   "corrupt": the payload is not a ZSTD frame.
HeaderDefects == {"short", "magic", "flags", "empty", "corrupt"}

\* The bytes the payload decompresses to: its blocks, then `tail` bytes of a
\* block that is cut off.
PayloadSize(f) == Len(f.blocks) * BlockBytes + f.tail

\* Binary frames with at most n blocks: the header's message_count and
\* uncompressed_size (equal to the payload's real size, or off by one byte),
\* and the payload.
BinFrames(n) ==
  {[hdr |-> h, count |-> 0, usize |-> 0, blocks |-> <<>>, tail |-> 0] :
      h \in HeaderDefects}
  \cup
  {f \in [hdr : {"ok"}, count : 0..n, usize : 0..(n * BlockBytes + 2),
          blocks : UNION {[1..k -> Blocks] : k \in 0..n}, tail : 0..1] :
      f.usize - PayloadSize(f) \in {-1, 0, 1}}

\* In how many ways frame f departs from a well-formed one: a header defect,
\* an uncompressed_size that is not the payload's size, a message_count that
\* is not the number of blocks, a cut-off block.
Deviations(f) ==
  (IF f.hdr /= "ok" THEN 1 ELSE 0)
  + (IF f.hdr = "ok" /\ f.usize /= PayloadSize(f) THEN 1 ELSE 0)
  + (IF f.hdr = "ok" /\ f.count /= Len(f.blocks) THEN 1 ELSE 0)
  + (IF f.tail /= 0 THEN 1 ELSE 0)

\* No frame yet.
NoFrame == [hdr |-> "none", count |-> 0, usize |-> 0, blocks |-> <<>>, tail |-> 0]

\* ZSTD_isError(res)
ZstdError == -1

\* ZSTD_decompress(dst, dstCapacity = uncompressed_size, src, srcSize): the
\* number of bytes written when the content fits the capacity, else an error.
ZstdDecompress(f) ==
  IF f.hdr = "corrupt" \/ PayloadSize(f) > f.usize
  THEN ZstdError
  ELSE PayloadSize(f)

\* onBinaryMessageReceived up to the call of parseDecompressedPayload: the
\* frame gets there when its header is valid, it has a payload and ZSTD
\* reports no error (the buffer is then resized to the bytes written).
ReachesParse(f) == f.hdr = "ok" /\ ZstdDecompress(f) /= ZstdError

\* onRos2CdrMessage without the lookup in _parsers_topic: every block is
\* given to a parser.
OnRos2CdrMessage_NoLookup(b, ps) ==
  IF b.throws THEN "throw" ELSE "push"

\* onRos2CdrMessage(topic, ...) on block b with parser table ps: "skip" when
\* no parser is registered for the topic, "throw" when parseMessage throws,
\* else "push".
OnRos2CdrMessage(b, ps) ==
  IF b.topic \notin ps THEN "skip"
  ELSE IF b.throws THEN "throw"
  ELSE "push"

\* The loop of parseDecompressedPayload from block i on.  acc is what it has
\* done: the topics whose parser was called, the parser table (shutdown()
\* clears it when a parser throws), whether one threw, and `parsed`.
RECURSIVE ParseBlocks(_, _, _)
ParseBlocks(bs, i, acc) ==
  IF i > Len(bs) THEN acc
  ELSE LET r == OnRos2CdrMessage(bs[i], acc.parsers) IN
       ParseBlocks(bs, i + 1,
         [handed  |-> IF r = "skip" THEN acc.handed
                      ELSE Append(acc.handed, bs[i].topic),
          parsers |-> IF r = "throw" THEN {} ELSE acc.parsers,
          thrown  |-> acc.thrown \/ r = "throw",
          parsed  |-> acc.parsed + 1])

\* parseDecompressedPayload(decompressed, expected_count) with parser table
\* ps: the loop's result and the value returned (false for a cut-off block or
\* when parsed differs from message_count).
ParseDecompressedPayload(f, ps) ==
  LET r == ParseBlocks(f.blocks, 1,
             [handed |-> <<>>, parsers |-> ps, thrown |-> FALSE, parsed |-> 0])
  IN  [handed |-> r.handed, thrown |-> r.thrown, parsed |-> r.parsed,
       ok |-> (f.tail = 0 /\ r.parsed = f.count)]

\* ------------------------------------------------------- handler records
\* What a handler showed (message boxes), sent (commands) and emitted (signals).
NoOut == [box |-> {}, sent |-> <<>>, sig |-> {}]

\* The handler e that runs on message m, with the state it finds on entry:
\* whether m.id equals the pending id, whether a request is in flight and has
\* an id, the mode, and the unanswered commands m.id belongs to.
Ev(e, m) ==
  [ev |-> e, status |-> m.status, kind |-> m.kind, version |-> m.version,
   id_match |-> (m.id = pending_request_id),
   in_flight |-> req_in_flight, mode |-> mode, running |-> running,
   has_id |-> (pending_request_id /= NoId),
   answers |-> {o.cmd : o \in {x \in outstanding : x.id = m.id}}]

NoMsg == [id |-> NoId, version |-> 1, status |-> "", kind |-> "", names |-> {}, enc |-> <<>>]

\* No binary frame is being decoded and no consumer reads the sink.
DecoderIdle ==
  /\ dec_pc = "idle"
  /\ dec_frame = NoFrame
  /\ dec_no = 0
  /\ dec_q = 0
  /\ dec_parsed = 0
  /\ mutex = "free"
  /\ sink = <<>>
  /\ snapshot = <<>>
  /\ dec_call = <<>>

\* No CSV header is being normalized.
HeaderIdle ==
  /\ hdr_pc = "idle"
  /\ hdr_slices = <<>>
  /\ hdr_names = <<>>
  /\ hdr_warned = FALSE
  /\ hdr_again = <<>>

\* ParseCsvData is not running.
RowsIdle ==
  /\ csv_pc = "idle"
  /\ csv_config = <<>>
  /\ column_types = <<>>
  /\ prev_time = 0
  /\ linenumber = 0
  /\ samplecount = 0
  /\ result = <<>>
  /\ csv_seen = <<>>

\* No line of text is being examined.
TextIdle ==
  /\ txt_pc = "idle"
  /\ txt_line = <<>>
  /\ txt_delim = ""
  /\ txt_separator = ""
  /\ txt_parts = <<>>

\* No string series exists.
SeriesIdle ==
  /\ points = <<>>
  /\ index_to_string = <<>>
  /\ string_to_index = {}
  /\ pushed = <<>>

\* The CSV loader is not running.
FilesIdle == HeaderIdle /\ RowsIdle /\ TextIdle /\ SeriesIdle

\* A handler of the client that runs as a whole on the event loop: the
\* process is alive, and neither the step-wise decoder nor the CSV loader
\* below is involved.
ClientStep == alive /\ UNCHANGED <<decoder, files>>

\* A step of the binary slot or of the sink's consumer.
DecoderStep == alive /\ UNCHANGED files

\* The client after construction.
ClientInit ==
  /\ running = FALSE
  /\ paused = FALSE
  /\ closing = FALSE
  /\ mode = "Close"
  /\ req_in_flight = FALSE
  /\ pending_request_id = NoId
  /\ pending_mode = "Close"
  /\ topics_timer = FALSE
  /\ heartbeat_timer = FALSE
  /\ topics = <<>>
  /\ parsers = {}
  /\ warned = {}
  /\ config_topics \in SUBSET Topics
  /\ dialog = FALSE
  /\ items = {}
  /\ selected = {}
  /\ ok_enabled = FALSE
  /\ sock = "Unconnected"
  /\ next_id = 1
  /\ outstanding = {}
  /\ last = Ev("init", NoMsg)
  /\ out = NoOut
  /\ stopped = FALSE
  /\ alive = TRUE

Init ==
  /\ ClientInit
  /\ DecoderIdle
  /\ FilesIdle


\* ------------------------------------------------------------- helpers
\* resetState() without _topics.clear().
ResetState_KeepsTopics ==
  /\ topics_timer' = FALSE
  /\ heartbeat_timer' = FALSE
  /\ mode' = "Close"
  /\ req_in_flight' = FALSE
  /\ pending_request_id' = NoId
  /\ pending_mode' = "Close"
  /\ topics' = topics
  /\ parsers' = {}

\* resetState() that leaves _state.mode as it is.
ResetState_KeepsMode ==
  /\ topics_timer' = FALSE
  /\ heartbeat_timer' = FALSE
  /\ mode' = mode
  /\ req_in_flight' = FALSE
  /\ pending_request_id' = NoId
  /\ pending_mode' = "Close"
  /\ topics' = <<>>
  /\ parsers' = {}

\* resetState() without the two stop() calls.
ResetState_TimersRun ==
  /\ UNCHANGED <<topics_timer, heartbeat_timer>>
  /\ mode' = "Close"
  /\ req_in_flight' = FALSE
  /\ pending_request_id' = NoId
  /\ pending_mode' = "Close"
  /\ topics' = <<>>
  /\ parsers' = {}

\* resetState()
ResetState ==
  /\ topics_timer' = FALSE
  /\ heartbeat_timer' = FALSE
  /\ mode' = "Close"
  /\ req_in_flight' = FALSE
  /\ pending_request_id' = NoId
  /\ pending_mode' = "Close"
  /\ topics' = <<>>
  /\ parsers' = {}

\* sendCommand(obj): nothing is sent unless the socket is in ConnectedState;
\* otherwise a fresh id is put into the command and the command is sent.
\* `conn` is whether _socket.state() == ConnectedState when it is called.
SendResult(conn) == IF conn THEN next_id ELSE NoId

Wire(conn, cmd) == IF conn THEN <<cmd>> ELSE <<>>

SendCommand(conn, cmd) ==
  /\ conn => next_id <= MaxId
  /\ next_id' = IF conn THEN next_id + 1 ELSE next_id
  /\ outstanding' = IF conn /\ cmd \in ReplyCommands
                    THEN outstanding \cup {[id |-> next_id, cmd |-> cmd]}
                    ELSE outstanding

CanSend == sock = "Connected"

\* updateOkButton(): the enabled state it gives the OK button.
OkButtonEnabled(run, md, hasSel, rif) ==
  IF ~run THEN TRUE
  ELSE IF md = "GetTopics" THEN hasSel /\ ~rif
  ELSE FALSE

\* WebsocketDialog::selectedTopics(): one TopicInfo per selected item.
SelectedTopics ==
  LET names == SelectSeq(TopicOrder, LAMBDA n : n \in selected)
  IN  [i \in 1..Len(names) |-> [name |-> names[i], enc |-> ""]]

\* dialog.exec() has returned and start() cleared _dialog; the dialog object
\* (and its widgets) is gone.
CloseDialog ==
  /\ dialog' = FALSE
  /\ items' = {}
  /\ selected' = {}
  /\ ok_enabled' = FALSE

\* shutdown() up to and including _socket.abort(): abort emits disconnected
\* synchronously, and onDisconnected then finds _dialog null, _closing true
\* and _running false, so it changes nothing.
ShutdownCore ==
  IF ~running
  THEN UNCHANGED <<core, sock, outstanding>>
  ELSE /\ running' = FALSE
       /\ paused' = FALSE
       /\ ResetState
       /\ closing' = TRUE
       /\ sock' = "Unconnected"
       /\ outstanding' = {}

ShutdownOut == IF running THEN [NoOut EXCEPT !.sig = {"dataReceived"}] ELSE NoOut

\* ------------------------------------------------------------- actions
\* start(): returns true at once when running, else opens the modal dialog.
Start ==
  /\ ClientStep
  /\ ~dialog
  /\ last' = Ev("start", NoMsg)
  /\ out' = NoOut
  /\ IF running
     THEN UNCHANGED dlg
     ELSE /\ dialog' = TRUE
          /\ items' = {}
          /\ selected' = {}
          /\ ok_enabled' = TRUE
  /\ UNCHANGED <<core, warned, config_topics, net, stopped, alive>>

\* OK button while not running (phase 1): validate, then _socket.open(_url).
OkConnect(v) ==
  /\ ClientStep
  /\ dialog /\ ok_enabled /\ ~running
  /\ last' = Ev("ok_connect", NoMsg)
  /\ IF v = "ok"
     THEN /\ sock' = "Connecting"
          /\ ok_enabled' = FALSE
          /\ stopped' = FALSE
          /\ out' = NoOut
     ELSE /\ out' = [NoOut EXCEPT !.box = {v}]
          /\ UNCHANGED <<sock, ok_enabled, stopped>>
  /\ UNCHANGED <<core, warned, config_topics, dialog, items, selected,
                 next_id, outstanding, alive>>

\* The phase-2 test without the request in flight.
SubscribeRefused_InFlightIgnored == mode /= "GetTopics" \/ selected = {}

\* if (_state.mode != WsState::Mode::GetTopics || _state.req_in_flight ||
\*     !dialog.hasSelection()) return;
SubscribeRefused == mode /= "GetTopics" \/ req_in_flight \/ selected = {}

\* OK button while running (phase 2): subscribe to the selected topics, then
\* dialog.reject(); exec() returns and start() returns true.
OkSubscribe ==
  /\ ClientStep
  /\ dialog /\ ok_enabled /\ running
  /\ last' = Ev("ok_subscribe", NoMsg)
  /\ IF SubscribeRefused
     THEN /\ out' = NoOut
          /\ UNCHANGED <<core, config_topics, dlg, net>>
     ELSE /\ topics' = SelectedTopics
          /\ config_topics' = selected
          /\ mode' = "Subscribe"
          /\ req_in_flight' = TRUE
          /\ pending_mode' = "Subscribe"
          /\ pending_request_id' = SendResult(CanSend)
          /\ SendCommand(CanSend, "subscribe")
          /\ out' = [NoOut EXCEPT !.sent = Wire(CanSend, "subscribe")]
          /\ CloseDialog
          /\ UNCHANGED <<running, paused, closing, topics_timer, heartbeat_timer,
                         parsers, sock>>
  /\ UNCHANGED <<warned, stopped, alive>>

\* A selection change in the topic list: updateOkButton().
SelectionChanged(S) ==
  /\ ClientStep
  /\ dialog
  /\ S \subseteq items
  /\ S /= selected
  /\ selected' = S
  /\ ok_enabled' = OkButtonEnabled(running, mode, S /= {}, req_in_flight)
  /\ last' = Ev("selection", NoMsg)
  /\ out' = NoOut
  /\ UNCHANGED <<core, warned, config_topics, dialog, items, net, stopped, alive>>

\* Cancel button: shutdown(); dialog.reject(); then the tail of start().
Cancel ==
  /\ ClientStep
  /\ dialog
  /\ last' = Ev("cancel", NoMsg)
  /\ ShutdownCore
  /\ CloseDialog
  /\ out' = ShutdownOut
  /\ stopped' = TRUE
  /\ UNCHANGED <<warned, config_topics, next_id, alive>>

\* The dialog is dismissed without a button (Escape, window close): exec()
\* returns and the tail of start() runs: shutdown() when not running (which
\* then returns at once), and start() returns _running.
Dismiss ==
  /\ ClientStep
  /\ dialog
  /\ last' = Ev("dismiss", NoMsg)
  /\ CloseDialog
  /\ out' = NoOut
  /\ stopped' = IF running THEN stopped ELSE TRUE
  /\ UNCHANGED <<core, warned, config_topics, net, alive>>

\* shutdown() called by the host (stop request, destructor).
Shutdown ==
  /\ ClientStep
  /\ ~dialog
  /\ last' = Ev("shutdown", NoMsg)
  /\ ShutdownCore
  /\ out' = ShutdownOut
  /\ stopped' = TRUE
  /\ UNCHANGED <<warned, config_topics, dlg, next_id, alive>>

\* pause() / resume(): the command is attempted only when running and no
\* request is in flight.
CommandAllowed == running /\ ~req_in_flight

\* The "Pause"/"Resume" settings action (the modal dialog blocks it): the
\* handler's own checks of _running and req_in_flight, then resume() when
\* paused, else pause(); _paused flips only when the command was sent.
TogglePause ==
  /\ ClientStep
  /\ ~dialog
  /\ LET cmd == IF paused THEN "resume" ELSE "pause" IN
     /\ last' = Ev(cmd, NoMsg)
     /\ IF ~running \/ req_in_flight \/ ~CommandAllowed
        THEN /\ out' = NoOut
             /\ UNCHANGED <<paused, next_id, outstanding>>
        ELSE /\ SendCommand(CanSend, cmd)
             /\ out' = [NoOut EXCEPT !.sent = Wire(CanSend, cmd)]
             /\ paused' = IF CanSend THEN ~paused ELSE paused
  /\ UNCHANGED <<running, closing, mode, req_in_flight, pending_request_id,
                 pending_mode, topics_timer, heartbeat_timer, topics, parsers,
                 warned, config_topics, dlg, sock, stopped, alive>>

\* The poll test without the mode.
TopicsPollRefused_AnyMode == ~running \/ req_in_flight

\* "Only poll when connected and idle": if (!_running || (_state.mode !=
\* WsState::Mode::GetTopics) || _state.req_in_flight) return;
TopicsPollRefused == ~running \/ mode /= "GetTopics" \/ req_in_flight

\* requestTopics()
RequestTopicsHandler ==
  /\ ClientStep
  /\ last' = Ev("topics_tick", NoMsg)
  /\ IF sock /= "Connected" \/ TopicsPollRefused
     THEN /\ out' = NoOut
          /\ UNCHANGED <<req_in_flight, pending_mode, pending_request_id,
                         next_id, outstanding>>
     ELSE /\ req_in_flight' = TRUE
          /\ pending_mode' = "GetTopics"
          /\ pending_request_id' = SendResult(CanSend)
          /\ SendCommand(CanSend, "get_topics")
          /\ out' = [NoOut EXCEPT !.sent = Wire(CanSend, "get_topics")]
  /\ UNCHANGED <<running, paused, closing, mode, topics_timer, heartbeat_timer,
                 topics, parsers, warned, config_topics, dlg, sock, stopped, alive>>

\* requestTopics(): the topic-refresh timer fired.
RequestTopics == topics_timer /\ RequestTopicsHandler

\* sendHeartBeat()
SendHeartBeatHandler ==
  /\ ClientStep
  /\ last' = Ev("heartbeat_tick", NoMsg)
  /\ IF sock /= "Connected" \/ ~running \/ mode /= "Data"
     THEN /\ out' = NoOut
          /\ UNCHANGED <<next_id, outstanding>>
     ELSE /\ SendCommand(CanSend, "heartbeat")
          /\ out' = [NoOut EXCEPT !.sent = Wire(CanSend, "heartbeat")]
  /\ UNCHANGED <<core, warned, config_topics, dlg, sock, stopped, alive>>

\* sendHeartBeat(): the heartbeat timer fired.
SendHeartBeat == heartbeat_timer /\ SendHeartBeatHandler

\* The connection attempt succeeded: the socket is in ConnectedState and
\* emits connected(); onConnected() runs.
OnConnected ==
  /\ ClientStep
  /\ sock = "Connecting"
  /\ sock' = "Connected"
  /\ last' = Ev("connected", NoMsg)
  /\ running' = TRUE
  /\ mode' = "GetTopics"
  /\ req_in_flight' = TRUE
  /\ pending_mode' = "GetTopics"
  /\ pending_request_id' = SendResult(TRUE)
  /\ SendCommand(TRUE, "get_topics")
  /\ out' = [NoOut EXCEPT !.sent = Wire(TRUE, "get_topics")]
  /\ topics_timer' = TRUE
  /\ UNCHANGED <<paused, closing, heartbeat_timer, topics, parsers, warned,
                 config_topics, dlg, stopped, alive>>

\* The peer started the closing handshake: the socket leaves ConnectedState
\* before disconnected() is emitted.
PeerClosing ==
  /\ ClientStep
  /\ sock = "Connected"
  /\ sock' = "Closing"
  /\ last' = Ev("peer_closing", NoMsg)
  /\ out' = NoOut
  /\ UNCHANGED <<core, warned, config_topics, dlg, next_id, outstanding,
                 stopped, alive>>

\* onDisconnected(): its message box, and its effect on the client.
DisconnectBox ==
  IF ~dialog /\ ~closing THEN {"Server closed the connection"} ELSE {}

OnDisconnectedBody ==
  /\ IF dialog
     THEN /\ items' = {}
          /\ selected' = {}
          /\ ok_enabled' = TRUE
          /\ UNCHANGED dialog
     ELSE UNCHANGED dlg
  /\ IF ~running
     THEN UNCHANGED core
     ELSE /\ closing' = FALSE
          /\ ResetState
          /\ running' = FALSE
          /\ UNCHANGED paused

\* The socket emitted disconnected().
OnDisconnected ==
  /\ ClientStep
  /\ sock \in {"Connected", "Closing"}
  /\ sock' = "Unconnected"
  /\ outstanding' = {}
  /\ last' = Ev("disconnected", NoMsg)
  /\ out' = [NoOut EXCEPT !.box = DisconnectBox]
  /\ OnDisconnectedBody
  /\ UNCHANGED <<warned, config_topics, next_id, stopped, alive>>

\* The socket reported an error (connection refused, connection lost):
\* onError() shows the error string and calls onDisconnected().
OnError ==
  /\ ClientStep
  /\ sock \in {"Connecting", "Connected", "Closing"}
  /\ sock' = "Unconnected"
  /\ outstanding' = {}
  /\ last' = Ev("error", NoMsg)
  /\ out' = [NoOut EXCEPT !.box = {"socket error"} \cup DisconnectBox]
  /\ OnDisconnectedBody
  /\ UNCHANGED <<warned, config_topics, next_id, stopped, alive>>


\* ------------------------------------------------------- text messages
\* parserFactories()->find(encoding) and createParser: what the registered
\* factory does for a schema of this encoding.
FactoryFor(enc) ==
  CASE enc = "cdr" -> "parser"
    [] enc = "bad" -> "throws"
    [] OTHER -> "none"

\* createParsersForTopics() from the i-th topic on.  acc is the state it has
\* built: the parser table, the static `warned` set, the boxes shown, and
\* whether createParser threw (which ends the loop: nothing catches it).
RECURSIVE CreateParsers(_, _, _)
CreateParsers(ts, i, acc) ==
  IF i > Len(ts) THEN acc
  ELSE LET t == ts[i] IN
       IF t.name \in acc.parsers THEN CreateParsers(ts, i + 1, acc)
       ELSE IF FactoryFor(t.enc) = "none"
            THEN CreateParsers(ts, i + 1,
                   [acc EXCEPT !.warned = @ \cup {t.enc},
                               !.box = IF t.enc \in acc.warned THEN @
                                       ELSE @ \cup {"Encoding problem"}])
       ELSE IF FactoryFor(t.enc) = "throws"
            THEN [acc EXCEPT !.thrown = TRUE]
       ELSE CreateParsers(ts, i + 1, [acc EXCEPT !.parsers = @ \cup {t.name}])

\* The in-flight check without the comparison of the ids.
IdAccepted_NoCompare(id) ==
  req_in_flight => pending_request_id /= NoId

\* "If a request is in-flight, only accept matching response id".
IdAccepted(id) ==
  req_in_flight => (pending_request_id /= NoId /\ id = pending_request_id)

\* handledMode taken from the current mode instead of the pending one.
HandledMode_Current == mode

\* const auto handledMode = _pending_mode;
HandledMode == pending_mode

\* The status=="error" branch without _pending_request_id.clear().
ErrorReply_KeepsId(m) ==
  /\ req_in_flight' = FALSE
  /\ pending_request_id' = pending_request_id
  /\ pending_mode' = "Close"
  /\ out' = [NoOut EXCEPT !.box = {"server error"}]
  /\ UNCHANGED <<mode, topics_timer, heartbeat_timer, topics, parsers, warned,
                 config_topics, items, selected, ok_enabled, alive>>

\* The status=="error" branch.
ErrorReply(m) ==
  /\ req_in_flight' = FALSE
  /\ pending_request_id' = NoId
  /\ pending_mode' = "Close"
  /\ out' = [NoOut EXCEPT !.box = {"server error"}]
  /\ UNCHANGED <<mode, topics_timer, heartbeat_timer, topics, parsers, warned,
                 config_topics, items, selected, ok_enabled, alive>>

\* case GetTopics of a success reply: hand the topic list to the dialog.
TopicsReply(m) ==
  IF ~dialog \/ m.kind /= "topics"
  THEN /\ out' = NoOut
       /\ UNCHANGED <<config_topics, items, selected, ok_enabled>>
  ELSE LET sel == m.names \cap (config_topics \cup selected) IN
       /\ items' = m.names
       /\ selected' = sel
       /\ config_topics' = {}
       /\ ok_enabled' = OkButtonEnabled(running, mode, sel /= {}, FALSE)
       /\ out' = NoOut

\* case Subscribe of a success reply.
SubscribeReply(m) ==
  IF m.kind /= "schemas"
  THEN /\ topics' = <<>>
       /\ parsers' = {}
       /\ out' = NoOut
       /\ UNCHANGED <<mode, topics_timer, heartbeat_timer, warned, alive>>
  ELSE LET kept == SelectSeq(topics, LAMBDA t : t.name \in m.names)
           filled == [i \in 1..Len(kept) |->
                        [name |-> kept[i].name, enc |-> m.enc[kept[i].name]]]
           r == CreateParsers(filled, 1,
                  [parsers |-> parsers, warned |-> warned, box |-> {},
                   thrown |-> FALSE])
       IN  /\ topics' = filled
           /\ parsers' = r.parsers
           /\ warned' = r.warned
           /\ out' = [NoOut EXCEPT !.box = r.box]
           /\ IF r.thrown
              THEN \* the exception leaves the slot: the rest of the handler
                   \* does not run; the process goes on only if the host's
                   \* event loop survives the exception
                   /\ alive' \in BOOLEAN
                   /\ UNCHANGED <<mode, topics_timer, heartbeat_timer>>
              ELSE /\ mode' = "Data"
                   /\ topics_timer' = FALSE
                   /\ heartbeat_timer' = TRUE
                   /\ UNCHANGED alive

\* The status=="success" branch.
SuccessReply(m) ==
  /\ req_in_flight' = FALSE
  /\ pending_request_id' = NoId
  /\ pending_mode' = "Close"
  /\ CASE HandledMode = "GetTopics" ->
            /\ TopicsReply(m)
            /\ UNCHANGED <<mode, topics_timer, heartbeat_timer, topics, parsers,
                           warned, alive>>
       [] HandledMode = "Subscribe" ->
            /\ SubscribeReply(m)
            /\ UNCHANGED <<config_topics, items, selected, ok_enabled>>
       [] OTHER ->
            /\ out' = NoOut
            /\ UNCHANGED <<mode, topics_timer, heartbeat_timer, topics, parsers,
                           warned, config_topics, items, selected, ok_enabled,
                           alive>>

\* onTextMessageReceived(message) for a message that is a JSON object.
TextMessageHandler(m) ==
  /\ ClientStep
  /\ last' = Ev("text", m)
  /\ outstanding' = {o \in outstanding : o.id /= m.id}
  /\ IF ~running \/ m.version /= 1 \/ ~IdAccepted(m.id)
     THEN /\ out' = NoOut
          /\ UNCHANGED <<wsState, warned, config_topics, items, selected,
                         ok_enabled, alive>>
     ELSE IF m.status = "error" THEN ErrorReply(m)
     ELSE IF m.status /= "success"
     THEN /\ out' = NoOut
          /\ UNCHANGED <<wsState, warned, config_topics, items, selected,
                         ok_enabled, alive>>
     ELSE SuccessReply(m)
  /\ UNCHANGED <<running, paused, closing, dialog, sock, next_id, stopped>>

\* ------------------------------------------------------- binary frames
\* The binary frames that arrive in the client model: at most one block, for
\* the first topic, and at most one deviation.
Frames ==
  {f \in BinFrames(1) :
     /\ Deviations(f) <= 1
     /\ \A i \in 1..Len(f.blocks) : f.blocks[i].topic = TopicOrder[1]}

\* onBinaryMessageReceived(message), with parseDecompressedPayload and
\* onRos2CdrMessage, run as one handler: a parser exception shuts the client
\* down; dataReceived is emitted whenever the payload was handed to the parse.
BinaryMessageHandler(f) ==
  /\ ClientStep
  /\ last' = Ev("binary", NoMsg)
  /\ LET r == ParseDecompressedPayload(f, parsers) IN
     IF running /\ ReachesParse(f) /\ r.thrown
     THEN /\ ShutdownCore
          /\ IF dialog THEN CloseDialog ELSE UNCHANGED dlg
          /\ out' = [box |-> {"Problem parsing the message"}, sent |-> <<>>,
                     sig |-> {"dataReceived", "closed"}]
          /\ stopped' = TRUE
     ELSE /\ out' = IF running /\ ReachesParse(f)
                    THEN [NoOut EXCEPT !.sig = {"dataReceived"}]
                    ELSE NoOut
          /\ UNCHANGED <<core, dlg, sock, outstanding, stopped>>
  /\ UNCHANGED <<warned, config_topics, next_id, alive>>

\* The connected socket delivers a text message.
OnTextMessageReceived(m) == sock = "Connected" /\ TextMessageHandler(m)

\* The connected socket delivers a binary message.
OnBinaryMessageReceived(f) == sock = "Connected" /\ BinaryMessageHandler(f)

\* ------------------------------------------------------- specification
\* The ids an arriving text frame is given: the pending one, those of the
\* commands still unanswered, the empty id and a foreign id.  Any other id
\* matches nothing, like the foreign one.
ArrivingIds ==
  {NoId, pending_request_id, ForeignId} \cup {o.id : o \in outstanding}

Next ==
  \/ Start
  \/ \E v \in {"ok", "Invalid Port", "Invalid Address"} : OkConnect(v)
  \/ OkSubscribe
  \/ \E S \in SUBSET Topics : SelectionChanged(S)
  \/ Cancel
  \/ Dismiss
  \/ Shutdown
  \/ TogglePause
  \/ RequestTopics
  \/ SendHeartBeat
  \/ OnConnected
  \/ PeerClosing
  \/ OnDisconnected
  \/ OnError
  \/ \E m \in Msgs : m.id \in ArrivingIds /\ OnTextMessageReceived(m)
  \/ \E f \in Frames : OnBinaryMessageReceived(f)

Spec == Init /\ [][Next]_vars

\* The client next to an event loop that still delivers, after the client
\* has stopped running, a message or a timeout that was pending when it
\* stopped: the guards on _running at the head of the four handlers are what
\* these events meet.
StaleNext ==
  \/ Next
  \/ \E m \in Msgs :
       /\ m.id \in ArrivingIds
       /\ ~running /\ sock /= "Connected" /\ TextMessageHandler(m)
  \/ \E f \in Frames :
       ~running /\ sock /= "Connected" /\ BinaryMessageHandler(f)
  \/ ~running /\ ~topics_timer /\ RequestTopicsHandler
  \/ ~running /\ ~heartbeat_timer /\ SendHeartBeatHandler

StaleSpec == Init /\ [][StaleNext]_vars

TypeOK ==
  /\ mode \in Modes /\ pending_mode \in Modes
  /\ sock \in SockStates
  /\ pending_request_id \in 0..MaxId
  /\ next_id \in 1..(MaxId + 1)
  /\ parsers \subseteq Topics
  /\ selected \subseteq items


(***************************************************************************)
(* Part 2: the binary slot of a streaming client, block by block, next to  *)
(* a consumer thread that copies the sink under DataStreamer::mutex().     *)
(* The slot runs on the event loop, so no other handler of the client runs *)
(* while a frame is being decoded.                                         *)
(***************************************************************************)
\* The client is streaming: subscribed to the first topic, parser created.
Streaming ==
  /\ running = TRUE /\ paused = FALSE /\ closing = FALSE
  /\ mode = "Data"
  /\ req_in_flight = FALSE /\ pending_request_id = NoId
  /\ pending_mode = "Close"
  /\ topics_timer = FALSE /\ heartbeat_timer = TRUE
  /\ topics = <<[name |-> TopicOrder[1], enc |-> "cdr"]>>
  /\ parsers = {TopicOrder[1]}
  /\ warned = {}
  /\ config_topics = {TopicOrder[1]}
  /\ dialog = FALSE /\ items = {} /\ selected = {} /\ ok_enabled = FALSE
  /\ sock = "Connected"
  /\ outstanding = {}
  /\ stopped = FALSE /\ alive = TRUE

DecoderInit ==
  /\ Streaming
  /\ next_id = MaxId
  /\ last = Ev("init", NoMsg)
  /\ out = NoOut
  /\ DecoderIdle
  /\ FilesIdle

\* The frames that arrive: at most one deviation, and only a block of the
\* subscribed topic can make a parser throw.
DecoderFrames ==
  {f \in BinFrames(MaxBlocks) :
     /\ Deviations(f) <= 1
     /\ \A i \in 1..Len(f.blocks) :
          f.blocks[i].throws => f.blocks[i].topic \in {TopicOrder[1]}}

\* onBinaryMessageReceived(message) up to the call of
\* parseDecompressedPayload: a frame that is not dropped goes on to the lock.
BinaryArrives(f) ==
  /\ DecoderStep
  /\ sock = "Connected"
  /\ dec_pc = "idle"
  /\ dec_no < MaxFrames
  /\ dec_no' = dec_no + 1
  /\ dec_frame' = f
  /\ dec_q' = 0
  /\ dec_parsed' = 0
  /\ dec_call' = <<>>
  /\ dec_pc' = IF running /\ ReachesParse(f) THEN "lock" ELSE "idle"
  /\ last' = Ev("binary", NoMsg)
  /\ out' = NoOut
  /\ UNCHANGED <<core, warned, config_topics, dlg, net, stopped, alive,
                 mutex, sink, snapshot>>

\* The lock taken once for the frame and released only when the parse returns.
LockHeld_PerBlock == FALSE

\* std::lock_guard<std::mutex> lock(mutex()) lives until
\* parseDecompressedPayload returns.
LockHeld == TRUE

\* std::lock_guard<std::mutex> lock(mutex()): blocks until the mutex is free.
DecoderLock ==
  /\ DecoderStep
  /\ dec_pc = "lock"
  /\ mutex = "free"
  /\ mutex' = "decoder"
  /\ dec_pc' = "loop"
  /\ UNCHANGED <<core, warned, config_topics, dlg, net, last, out, stopped,
                 alive, dec_frame, dec_no, dec_q, dec_parsed, sink, snapshot,
                 dec_call>>

\* double ts_sec = double(ts_ns) * 1e-9: ts_ns over the nanoseconds of a
\* second.
NanosPerSecond == 1000000000

\* The u64 ts_ns and the CDR bytes read from block i of a payload of blocks
\* bs: the frames of the model carry log times that decrease along the
\* payload, and in block i the bytes numbered i.
LogTimeNs(bs, i) == Len(bs) - i + 1

Cdr(bs, i) == i

\* it.value()->parseMessage(msg_ref, ts_sec) of the parser found for the
\* topic of block i: the call's parser, time (ts_ns over NanosPerSecond) and
\* bytes.
ParseMessage(bs, i) ==
  <<[parser |-> bs[i].topic, ts_sec |-> <<LogTimeNs(bs, i), NanosPerSecond>>,
     cdr |-> Cdr(bs, i)]>>

\* One iteration of the loop on a complete block: onRos2CdrMessage, then
\* parsed++.  A parser that throws shuts the client down (message box,
\* shutdown(), closed()) and the loop goes on.
DecoderBlock ==
  /\ DecoderStep
  /\ dec_pc = "loop"
  /\ dec_q < Len(dec_frame.blocks)
  /\ LET b == dec_frame.blocks[dec_q + 1]
         r == OnRos2CdrMessage(b, parsers)
     IN  /\ sink' = IF r = "skip" THEN sink ELSE Append(sink, dec_no)
         /\ dec_call' = IF r = "skip" THEN <<>>
                        ELSE ParseMessage(dec_frame.blocks, dec_q + 1)
         /\ IF r = "throw"
            THEN /\ ShutdownCore
                 /\ stopped' = TRUE
                 /\ out' = [box |-> {"Problem parsing the message"},
                            sent |-> <<>>, sig |-> {"closed"}]
            ELSE UNCHANGED <<core, sock, outstanding, stopped, out>>
  /\ dec_q' = dec_q + 1
  /\ dec_parsed' = dec_parsed + 1
  /\ IF LockHeld
     THEN UNCHANGED <<mutex, dec_pc>>
     ELSE mutex' = "free" /\ dec_pc' = "lock"
  /\ UNCHANGED <<warned, config_topics, dlg, next_id, last, alive, dec_frame,
                 dec_no, snapshot>>

\* The loop is left: a cut-off block makes a read fail (return false), else
\* the payload's end is reached and parsed is compared with message_count.
\* The lock is released and onBinaryMessageReceived emits dataReceived().
DecoderReturn ==
  /\ DecoderStep
  /\ dec_pc = "loop"
  /\ dec_q = Len(dec_frame.blocks)
  /\ mutex' = "free"
  /\ dec_pc' = "idle"
  /\ out' = [out EXCEPT !.sig = @ \cup {"dataReceived"}]
  /\ UNCHANGED <<core, warned, config_topics, dlg, net, last, stopped, alive,
                 dec_frame, dec_no, dec_q, dec_parsed, sink, snapshot,
                 dec_call>>

\* The consumer locks the streamer's mutex.
ConsumerLock ==
  /\ DecoderStep
  /\ mutex = "free"
  /\ mutex' = "consumer"
  /\ UNCHANGED <<core, warned, config_topics, dlg, net, last, out, stopped,
                 alive, dec_pc, dec_frame, dec_no, dec_q, dec_parsed, sink,
                 snapshot, dec_call>>

\* The consumer copies the sink and releases the mutex.
ConsumerSnapshot ==
  /\ DecoderStep
  /\ mutex = "consumer"
  /\ snapshot' = sink
  /\ mutex' = "free"
  /\ UNCHANGED <<core, warned, config_topics, dlg, net, last, out, stopped,
                 alive, dec_pc, dec_frame, dec_no, dec_q, dec_parsed, sink,
                 dec_call>>

DecoderNext ==
  \/ \E f \in DecoderFrames : BinaryArrives(f)
  \/ DecoderLock
  \/ DecoderBlock
  \/ DecoderReturn
  \/ ConsumerLock
  \/ ConsumerSnapshot

DecoderSpec == DecoderInit /\ [][DecoderNext]_vars

(***************************************************************************)
(* Part 3: CSV header normalization (DataLoadCSV/csv_parser.cpp).          *)
(* Strings are sequences of characters.  A header line is given by its     *)
(* slices between the delimiters (no quotes).                              *)
(***************************************************************************)
Digits == <<"0", "1", "2", "3", "4", "5", "6", "7", "8", "9">>

\* std::to_string(i)
RECURSIVE to_string(_)
to_string(i) ==
  IF i < 10 THEN <<Digits[i + 1]>>
  ELSE to_string(i \div 10) \o <<Digits[(i % 10) + 1]>>

\* "_Column_" + std::to_string(i)
ColumnName(i) == <<"_", "C", "o", "l", "u", "m", "n", "_">> \o to_string(i)

\* suffix << "_" << std::setw(2) << std::setfill('0') << index
Suffix(index) ==
  <<"_">> \o (IF index < 10 THEN <<"0">> ELSE <<>>) \o to_string(index)

\* Trim(str): str without leading and trailing white space.
RECURSIVE Trim(_)
Trim(str) ==
  IF str = <<>> THEN str
  ELSE IF Head(str) = " " THEN Trim(Tail(str))
  ELSE IF str[Len(str)] = " " THEN Trim(SubSeq(str, 1, Len(str) - 1))
  ELSE str

\* toDouble(str).has_value(): the string is a number.  The strings of the
\* model carry no sign, point or exponent: a number is a run of digits.
ToDouble(str) ==
  /\ str /= <<>>
  /\ \A i \in 1..Len(str) : \E d \in 1..Len(Digits) : str[i] = Digits[d]

\* The slices a header line is made of.
HeaderSlices ==
  {<<>>, <<"1">>, <<"a">>, <<" ", "a">>, <<"a">> \o Suffix(0), ColumnName(1)}

\* SplitLine(line, separator, parts) for a line without quotes: no part for
\* the empty line, else one trimmed part per slice.
SplitLine(slices) ==
  IF slices = << <<>> >> THEN <<>>
  ELSE [i \in 1..Len(slices) |-> Trim(slices[i])]

\* The elements of sequence q.
Range(q) == {q[i] : i \in 1..Len(q)}

\* ParseHeaderLine before "Handle duplicate column names": generated names
\* when every field is a number, else the trimmed field, or the generated
\* name in place of an empty one.
ColumnNames(parts) ==
  LET is_number_count ==
        Cardinality({i \in 1..Len(parts) : ToDouble(Trim(parts[i]))})
  IN  [i \in 1..Len(parts) |->
         IF is_number_count = Len(parts) THEN ColumnName(i - 1)
         ELSE IF Trim(parts[i]) = <<>> THEN ColumnName(i - 1)
         ELSE Trim(parts[i])]

\* The loop over i of "Handle duplicate column names", from index i on (the
\* code's indices start at 0): every name equal to the i-th gets its index
\* as suffix, and the loop goes on with the names so changed.
RECURSIVE HandleDuplicates(_, _)
HandleDuplicates(column_names, i) ==
  IF i > Len(column_names) THEN column_names
  ELSE LET repeated ==
             {i} \cup {j \in (i + 1)..Len(column_names) :
                         column_names[i] = column_names[j]}
       IN  HandleDuplicates(
             [k \in 1..Len(column_names) |->
                IF Cardinality(repeated) > 1 /\ k \in repeated
                THEN column_names[k] \o Suffix(k - 1)
                ELSE column_names[k]],
             i + 1)

\* ParseHeaderLine(header_line, delimiter)
ParseHeaderLine(slices) ==
  LET column_names == ColumnNames(SplitLine(slices)) IN
  IF Cardinality(Range(column_names)) < Len(column_names)
  THEN HandleDuplicates(column_names, 1)
  ELSE column_names

\* ParseCsvData's "Check for duplicate column warning": the raw parts of the
\* header line are not all different.
DuplicateWarning(slices) ==
  Cardinality(Range(SplitLine(slices))) < Len(SplitLine(slices))

HeaderInit ==
  /\ ClientInit /\ config_topics = {}
  /\ DecoderIdle
  /\ hdr_pc = "start"
  /\ hdr_slices \in UNION {[1..n -> HeaderSlices] : n \in 1..MaxFields}
  /\ hdr_names = <<>>
  /\ hdr_warned = FALSE
  /\ hdr_again = <<>>
  /\ RowsIdle /\ TextIdle /\ SeriesIdle

\* ParseCsvData reads the header: column names and the duplicate warning.
ReadHeader ==
  /\ hdr_pc = "start"
  /\ hdr_pc' = "parsed"
  /\ hdr_names' = ParseHeaderLine(hdr_slices)
  /\ hdr_warned' = DuplicateWarning(hdr_slices)
  /\ UNCHANGED <<client, decoder, rows, text, series, hdr_slices, hdr_again>>

\* ParseHeaderLine applied to the header line made of the names returned.
ReadHeaderAgain ==
  /\ hdr_pc = "parsed"
  /\ hdr_pc' = "again"
  /\ hdr_again' = ParseHeaderLine(hdr_names)
  /\ UNCHANGED <<client, decoder, rows, text, series, hdr_slices, hdr_names, hdr_warned>>

HeaderNext == ReadHeader \/ ReadHeaderAgain

HeaderSpec == HeaderInit /\ [][HeaderNext]_vars

(***************************************************************************)
(* Part 4: the row loop of ParseCsvData (DataLoadCSV/csv_parser.cpp) after *)
(* a header of two columns was read.  A cell is the trimmed string of a    *)
(* field, given by what it parses as: a number, a date, a time of day, or  *)
(* none of them, with the value it parses to.                              *)
(***************************************************************************)
\* Column indices of the header.
Columns == {0, 1}

\* num_columns
NumColumns == Cardinality(Columns)

Cell(k, v) == [k |-> k, v |-> v]
EmptyCell == Cell("empty", 0)

\* if (progress && (linenumber % 100 == 0))
ProgressPeriod == 100

\* std::numeric_limits<double>::lowest(): below every timestamp.
Lowest == -1

\* Seconds of a day, scaled to the times of day of the model (0 and 1).
DayLength == 2

\* std::optional<double>
None == [ok |-> FALSE, v |-> 0]
Some(v) == [ok |-> TRUE, v |-> v]

\* DetectColumnType(str) for a non-empty cell.
DetectColumnType(cell) ==
  CASE cell.k = "num"  -> "NUMBER"
    [] cell.k = "date" -> "DATE_ONLY"
    [] cell.k = "time" -> "TIME_ONLY"
    [] OTHER           -> "STRING"

\* ParseWithType(str, type): epoch seconds of a number, midnight of a date,
\* seconds since midnight of a time; nothing when the cell is not of the type.
ParseWithType(cell, type) ==
  CASE type = "NUMBER" /\ cell.k = "num"     -> Some(cell.v)
    [] type = "DATE_ONLY" /\ cell.k = "date" -> Some(cell.v * DayLength)
    [] type = "TIME_ONLY" /\ cell.k = "time" -> Some(cell.v)
    [] OTHER                                 -> None

\* FormatParseTimestamp(str, custom_time_format) for a format of dates.
FormatParseTimestamp(cell) ==
  IF cell.k = "date" THEN Some(cell.v * DayLength) ELSE None

\* ParseCombinedDateTime(date_val, time_val, date_type, time_type)
ParseCombinedDateTime(date_val, time_val, date_type, time_type) ==
  LET d == ParseWithType(date_val, date_type)
      t == ParseWithType(time_val, time_type)
  IN  IF date_type = "DATE_ONLY" /\ time_type = "TIME_ONLY" /\ d.ok /\ t.ok
      THEN Some(d.v + t.v)
      ELSE None

\* The configurations: row number as time (time_column_index -1), column 0
\* as time, with or without a custom format, and the combined pair (date
\* column 0, time column 1) selected or not, also together with a time
\* column; a progress callback comes with a header that lies three lines
\* before a multiple of ProgressPeriod.
CsvConfigs ==
  {c \in [time_column_index : {-1, 0}, custom_time_format : BOOLEAN,
          combined : BOOLEAN, skip_rows : {0, ProgressPeriod - 3},
          progress : BOOLEAN] :
     /\ c.custom_time_format => c.time_column_index = 0
     /\ c.progress <=> c.skip_rows /= 0}

\* The lines that follow the header: an empty line, a line with another
\* number of fields, or a row of two cells.
CsvLines(config) ==
  LET dates == config.combined \/ config.custom_time_format
      cells0 == IF dates
                THEN {EmptyCell, Cell("date", 0), Cell("date", 1), Cell("str", 0)}
                ELSE IF config.time_column_index >= 0
                THEN {EmptyCell, Cell("num", 0), Cell("num", 1), Cell("num", 2),
                      Cell("str", 0)}
                ELSE {EmptyCell, Cell("num", 0), Cell("str", 0)}
      cells1 == IF config.combined
                THEN {EmptyCell, Cell("time", 0), Cell("time", 1)}
                ELSE {EmptyCell, Cell("num", 0), Cell("str", 0)}
  IN  {[kind |-> k, parts |-> <<EmptyCell, EmptyCell>>] : k \in {"empty", "wrong"}}
      \cup
      {[kind |-> "row", parts |-> <<c0, c1>>] : c0 \in cells0, c1 \in cells1}

\* The cell of column i (columns count from 0).
Part(parts, i) == parts[i + 1]

\* result.combined_component_indices
CombinedComponents(config) == IF config.combined THEN {0, 1} ELSE {}

\* No line read yet.
NoLine == [kind |-> "none", parts |-> <<EmptyCell, EmptyCell>>]

\* CsvParseResult result; and the input and the configuration of the call.
\* csv_seen is what happened during the call: whether the header line was
\* read, the data lines read, the non-empty ones among them, the last one,
\* the timestamps parsed, the line numbers the progress callback was called
\* with, whether it cancelled the parse, and the column types that the
\* emitted rows alone give.
CsvInit ==
  /\ ClientInit /\ config_topics = {}
  /\ DecoderIdle
  /\ HeaderIdle /\ TextIdle /\ SeriesIdle
  /\ csv_pc = "start"
  /\ csv_config \in CsvConfigs
  /\ column_types = <<>>
  /\ prev_time = 0
  /\ linenumber = 0
  /\ samplecount = 0
  /\ result = [success |-> FALSE, columns |-> {}, warnings |-> <<>>,
               time_is_non_monotonic |-> FALSE,
               lines_processed |-> 0, lines_skipped |-> 0,
               numeric_points |-> <<>>,
               string_points |-> <<>>,
               detected_type |-> <<>>,
               combined_component_indices |-> {}]
  /\ csv_seen = [header |-> FALSE, lines |-> 0, nonempty |-> 0,
                 line |-> NoLine, stamps |-> <<>>, calls |-> <<>>,
                 cancelled |-> FALSE, kept |-> <<>>]

\* A warning that carries the line counted from the header.
CsvParseWarning_FromHeader(type, line_number) ==
  [type |-> type, line_number |-> line_number - csv_config.skip_rows]

\* CsvParseWarning warn; warn.type = ...; warn.line_number = linenumber;
CsvParseWarning(type, line_number) == [type |-> type, line_number |-> line_number]

\* The numbers of lines an input can have before its data lines, as far as
\* the call can tell them apart: fewer than skip_rows, skip_rows, or more.
InputLines(config) ==
  {n \in {0, config.skip_rows - 1, config.skip_rows, config.skip_rows + 1} :
     n >= 0}

\* Whether the two raw fields of the header are the same string; tried with
\* the configuration that has no time column, no combined pair and no
\* progress callback.
DuplicateHeaders(config) ==
  IF config.time_column_index >= 0 \/ config.skip_rows /= 0 \/ config.combined
  THEN {FALSE}
  ELSE BOOLEAN

\* Every input taken to have a header line.
HeaderMissing_Never(avail, skip_rows) == FALSE

\* A getline of the skip loop or the getline of the header fails: the input
\* has no more than skip_rows lines.
HeaderMissing(avail, skip_rows) == avail <= skip_rows

\* The start of ParseCsvData on an input of avail lines before the data: the
\* rows before the header are skipped and the header line of two fields is
\* read; duplicate says that the two raw fields are the same string.
ReadHeaderLine(avail, duplicate) ==
  /\ csv_pc = "start"
  /\ UNCHANGED <<client, decoder, header, text, series, csv_config>>
  /\ csv_seen' = [csv_seen EXCEPT
                    !.header = avail > csv_config.skip_rows,
                    !.kept = IF HeaderMissing(avail, csv_config.skip_rows)
                             THEN @
                             ELSE [i \in Columns |-> "UNDEFINED"]]
  /\ IF HeaderMissing(avail, csv_config.skip_rows)
     THEN /\ csv_pc' = "done"
          /\ UNCHANGED <<column_types, prev_time, linenumber, samplecount,
                         result>>
     ELSE /\ csv_pc' = "rows"
          /\ column_types' = [i \in Columns |-> "UNDEFINED"]
          /\ prev_time' = Lowest
          /\ linenumber' = csv_config.skip_rows + 1
          /\ samplecount' = 0
          /\ result' = [result EXCEPT
                          !.columns = Columns,
                          !.warnings =
                             IF duplicate
                             THEN <<CsvParseWarning("DUPLICATE_COLUMN_NAMES",
                                                    csv_config.skip_rows + 1)>>
                             ELSE <<>>,
                          !.numeric_points = [i \in Columns |-> <<>>],
                          !.string_points = [i \in Columns |-> <<>>],
                          !.detected_type = [i \in Columns |-> "UNDEFINED"],
                          !.combined_component_indices =
                             CombinedComponents(csv_config)]

\* The type of a column detected anew from every non-empty cell.
DetectTypes_EveryRow(types, parts) ==
  [i \in Columns |->
     IF Part(parts, i) /= EmptyCell
     THEN DetectColumnType(Part(parts, i))
     ELSE types[i]]

\* "Detect column types from first data row with non-empty cells"
DetectTypes(types, parts) ==
  [i \in Columns |->
     IF types[i] = "UNDEFINED" /\ Part(parts, i) /= EmptyCell
     THEN DetectColumnType(Part(parts, i))
     ELSE types[i]]

\* Without time column and combined pair, the timestamp is the number of the
\* line before the row.
Timestamp_LineNumber(config, parts, types, samples) ==
  IF config.combined
  THEN LET ts == ParseCombinedDateTime(Part(parts, 0), Part(parts, 1),
                                       types[0], types[1])
       IN  [valid |-> ts.ok, skip |-> ~ts.ok, v |-> ts.v]
  ELSE IF config.time_column_index >= 0 /\ config.time_column_index < NumColumns
  THEN LET t_str == Part(parts, config.time_column_index)
           time_type == types[config.time_column_index]
           ts == IF config.custom_time_format THEN FormatParseTimestamp(t_str)
                 ELSE IF time_type /= "STRING" THEN ParseWithType(t_str, time_type)
                 ELSE None
       IN  [valid |-> ts.ok, skip |-> ~ts.ok, v |-> ts.v]
  ELSE [valid |-> FALSE, skip |-> FALSE, v |-> linenumber - csv_config.skip_rows - 1]

\* The timestamp taken from the time column first and from the combined pair
\* only without a time column.
Timestamp_TimeColumnFirst(config, parts, types, samples) ==
  IF config.time_column_index >= 0 /\ config.time_column_index < NumColumns
  THEN LET t_str == Part(parts, config.time_column_index)
           time_type == types[config.time_column_index]
           ts == IF config.custom_time_format THEN FormatParseTimestamp(t_str)
                 ELSE IF time_type /= "STRING" THEN ParseWithType(t_str, time_type)
                 ELSE None
       IN  [valid |-> ts.ok, skip |-> ~ts.ok, v |-> ts.v]
  ELSE IF config.combined
  THEN LET ts == ParseCombinedDateTime(Part(parts, 0), Part(parts, 1),
                                       types[0], types[1])
       IN  [valid |-> ts.ok, skip |-> ~ts.ok, v |-> ts.v]
  ELSE [valid |-> FALSE, skip |-> FALSE, v |-> samples]

\* "Determine timestamp": timestamp_valid, the timestamp, and whether the row
\* is skipped with INVALID_TIMESTAMP.
Timestamp(config, parts, types, samples) ==
  IF config.combined
  THEN LET ts == ParseCombinedDateTime(Part(parts, 0), Part(parts, 1),
                                       types[0], types[1])
       IN  [valid |-> ts.ok, skip |-> ~ts.ok, v |-> ts.v]
  ELSE IF config.time_column_index >= 0 /\ config.time_column_index < NumColumns
  THEN LET t_str == Part(parts, config.time_column_index)
           time_type == types[config.time_column_index]
           ts == IF config.custom_time_format THEN FormatParseTimestamp(t_str)
                 ELSE IF time_type /= "STRING" THEN ParseWithType(t_str, time_type)
                 ELSE None
       IN  [valid |-> ts.ok, skip |-> ~ts.ok, v |-> ts.v]
  ELSE [valid |-> FALSE, skip |-> FALSE, v |-> samples]

\* The non-monotonic test done for every row.
NonMonotonic_EveryRow(prev, timestamp, flagged) == prev > timestamp

\* if (prev_time > timestamp && !result.time_is_non_monotonic)
NonMonotonic(prev, timestamp, flagged) == prev > timestamp /\ ~flagged

\* No column is left out of the values.
SkipsColumn_Never(components, i) == FALSE

\* if (result.combined_component_indices.count(static_cast<int>(i)) > 0)
SkipsColumn(components, i) == i \in components

\* "Parse column values": the points the row appends to column i.
NumericPoint(config, parts, types, i, timestamp) ==
  LET str == Part(parts, i) IN
  IF SkipsColumn(CombinedComponents(config), i) \/ str = EmptyCell
       \/ types[i] = "UNDEFINED"
  THEN <<>>
  ELSE IF types[i] /= "STRING" /\ ParseWithType(str, types[i]).ok
  THEN << <<timestamp, ParseWithType(str, types[i]).v>> >>
  ELSE <<>>

\* String points only for columns of type STRING: a cell that fails the
\* parse of its column's type is dropped.
StringPoint_StringColumnsOnly(config, parts, types, i, timestamp) ==
  LET str == Part(parts, i) IN
  IF SkipsColumn(CombinedComponents(config), i) \/ str = EmptyCell
       \/ types[i] /= "STRING"
  THEN <<>>
  ELSE << <<timestamp, str>> >>

\* result.columns[i].string_points.emplace_back(timestamp, str)
StringPoint(config, parts, types, i, timestamp) ==
  LET str == Part(parts, i) IN
  IF SkipsColumn(CombinedComponents(config), i) \/ str = EmptyCell
       \/ types[i] = "UNDEFINED"
  THEN <<>>
  ELSE IF types[i] /= "STRING" /\ ParseWithType(str, types[i]).ok
  THEN <<>>
  ELSE << <<timestamp, str>> >>

\* The loop going on to the next line whatever the callback returned.
ProgressReturn_Ignored(cancel) == "rows"

\* if (!progress(linenumber, total_lines)) return result;
ProgressReturn(cancel) == IF cancel THEN "done" ELSE "rows"

\* One iteration of while (std::getline(input, line)) on the next line; go is
\* what the progress callback returns if it gets called.
ReadLine(line, go) ==
  /\ csv_pc = "rows"
  /\ csv_seen.lines < MaxLines
  /\ linenumber' = linenumber + 1
  /\ UNCHANGED <<client, decoder, header, text, series, csv_config>>
  /\ IF line.kind = "empty"
     THEN /\ csv_seen' = [csv_seen EXCEPT !.lines = @ + 1, !.line = line]
          /\ UNCHANGED <<csv_pc, column_types, prev_time, samplecount, result>>
     ELSE IF line.kind = "wrong"
     THEN /\ result' = [result EXCEPT
                          !.warnings = Append(@, CsvParseWarning(
                                         "WRONG_COLUMN_COUNT", linenumber')),
                          !.lines_skipped = @ + 1]
          /\ csv_seen' = [csv_seen EXCEPT !.lines = @ + 1, !.nonempty = @ + 1,
                                          !.line = line]
          /\ UNCHANGED <<csv_pc, column_types, prev_time, samplecount>>
     ELSE LET types == DetectTypes(column_types, line.parts)
              ts == Timestamp(csv_config, line.parts, types, samplecount)
              late == ts.valid /\ NonMonotonic(prev_time, ts.v,
                                               result.time_is_non_monotonic)
              called == csv_config.progress /\ linenumber' % ProgressPeriod = 0
              cancel == called /\ ~go
          IN  /\ column_types' = types
              /\ IF ts.skip
                 THEN /\ result' = [result EXCEPT
                                      !.warnings = Append(@, CsvParseWarning(
                                                     "INVALID_TIMESTAMP", linenumber')),
                                      !.lines_skipped = @ + 1]
                      /\ csv_seen' = [csv_seen EXCEPT !.lines = @ + 1,
                                                      !.nonempty = @ + 1,
                                                      !.line = line]
                      /\ UNCHANGED <<csv_pc, prev_time, samplecount>>
                 ELSE /\ result' =
                           [result EXCEPT
                              !.time_is_non_monotonic = @ \/ late,
                              !.warnings =
                                 IF late
                                 THEN Append(@, CsvParseWarning(
                                        "NON_MONOTONIC_TIME", linenumber'))
                                 ELSE @,
                              !.numeric_points =
                                 [i \in Columns |-> @[i] \o NumericPoint(
                                    csv_config, line.parts, types, i, ts.v)],
                              !.string_points =
                                 [i \in Columns |-> @[i] \o StringPoint(
                                    csv_config, line.parts, types, i, ts.v)]]
                      /\ prev_time' = IF ts.valid THEN ts.v ELSE prev_time
                      /\ samplecount' = samplecount + 1
                      /\ csv_pc' = ProgressReturn(cancel)
                      /\ csv_seen' =
                           [csv_seen EXCEPT
                              !.lines = @ + 1, !.nonempty = @ + 1,
                              !.line = line,
                              !.stamps = IF ts.valid THEN Append(@, ts.v) ELSE @,
                              !.calls = IF called THEN Append(@, linenumber')
                                        ELSE @,
                              !.cancelled = cancel,
                              !.kept = DetectTypes(@, line.parts)]

\* getline fails at the end of the input: the detected types and the number
\* of rows are stored and the parse has succeeded.
EndOfInput ==
  /\ csv_pc = "rows"
  /\ csv_pc' = "done"
  /\ result' = [result EXCEPT !.detected_type = column_types,
                              !.lines_processed = samplecount,
                              !.success = TRUE]
  /\ UNCHANGED <<client, decoder, header, text, series, csv_config,
                 column_types, prev_time, linenumber, samplecount, csv_seen>>

CsvNext ==
  \/ \E avail \in InputLines(csv_config),
        duplicate \in DuplicateHeaders(csv_config) :
        ReadHeaderLine(avail, duplicate)
  \/ \E line \in CsvLines(csv_config), go \in BOOLEAN : ReadLine(line, go)
  \/ EndOfInput

CsvSpec == CsvInit /\ [][CsvNext]_vars

(***************************************************************************)
(* Part 5: DetectDelimiter and SplitLine (DataLoadCSV/csv_parser.cpp) on   *)
(* the characters of a line.  A line is a sequence of one-character        *)
(* strings.                                                                *)
(***************************************************************************)
Quote == "\""
Tab == "\t"

\* The sequences over S of length up to n.
Seqs(S, n) == UNION {[1..k -> S] : k \in 0..n}

\* The lines examined: short ones over every candidate delimiter, longer
\* ones over the characters SplitLine tells apart.
TextLines ==
  Seqs({"a", Tab, ";", ",", " ", Quote}, MaxChars)
    \cup Seqs({"a", ",", " ", Quote}, MaxQuoted)

\* countOutsideQuotes(line, delim), from the state inside_quotes.
RECURSIVE countOutsideQuotes(_, _, _)
countOutsideQuotes(line, delim, inside_quotes) ==
  IF line = <<>> THEN 0
  ELSE IF Head(line) = Quote
  THEN countOutsideQuotes(Tail(line), delim, ~inside_quotes)
  ELSE (IF ~inside_quotes /\ Head(line) = delim THEN 1 ELSE 0)
         + countOutsideQuotes(Tail(line), delim, inside_quotes)

\* space_count: "count consecutive spaces as one delimiter".
RECURSIVE SpaceCount(_, _, _)
SpaceCount(line, inside_quotes, prev_was_space) ==
  IF line = <<>> THEN 0
  ELSE IF Head(line) = Quote
  THEN SpaceCount(Tail(line), ~inside_quotes, FALSE)
  ELSE IF ~inside_quotes /\ Head(line) = " "
  THEN (IF ~prev_was_space THEN 1 ELSE 0)
         + SpaceCount(Tail(line), inside_quotes, TRUE)
  ELSE SpaceCount(Tail(line), inside_quotes, FALSE)

\* std::array<Candidate, 4> candidates
Candidates(first_line) ==
  << [delim |-> Tab, count |-> countOutsideQuotes(first_line, Tab, FALSE),
      priority |-> 4],
     [delim |-> ";", count |-> countOutsideQuotes(first_line, ";", FALSE),
      priority |-> 3],
     [delim |-> ",", count |-> countOutsideQuotes(first_line, ",", FALSE),
      priority |-> 2],
     [delim |-> " ", count |-> SpaceCount(first_line, FALSE, FALSE),
      priority |-> 1] >>

\* Candidate* best = nullptr
NoCandidate == [delim |-> "", count |-> 0, priority |-> 0]

\* A later candidate replacing the best one also at an equal count.
Better_OrEqual(c, best) == c.count >= best.count

\* c.count > best->count, or c.count == best->count && c.priority >
\* best->priority
Better(c, best) ==
  \/ c.count > best.count
  \/ c.count = best.count /\ c.priority > best.priority

\* for (auto& c : candidates), from candidate i on.
RECURSIVE PickBest(_, _, _)
PickBest(candidates, i, best) ==
  IF i > Len(candidates) THEN best
  ELSE LET c == candidates[i]
           threshold == IF c.delim = " " THEN 2 ELSE 1
       IN  IF c.count >= threshold /\ (best = NoCandidate \/ Better(c, best))
           THEN PickBest(candidates, i + 1, c)
           ELSE PickBest(candidates, i + 1, best)

DetectDelimiter(first_line) ==
  LET best == PickBest(Candidates(first_line), 1, NoCandidate)
  IN  IF best /= NoCandidate THEN best.delim ELSE ","

\* str.substr(pos, n) for pos <= size, with n an int converted to size_t: a
\* negative n becomes a huge count, and the count is cut at the end of str.
Substr(str, pos, n) ==
  LET rest == Len(str) - pos
      count == IF n < 0 \/ n > rest THEN rest ELSE n
  IN  SubSeq(str, pos + 1, pos + count)

\* The body of SplitLine's loop at position pos (from 0), on the state st of
\* the locals and the parts pushed so far.
SplitStep(line, separator, pos, st) ==
  LET c == line[pos + 1]
      closes == c = Quote /\ st.inside_quotes
      opens == c = Quote /\ ~st.inside_quotes
      quoted_word == st.quoted_word \/ closes
      quote_end == IF closes THEN pos - 1 ELSE st.quote_end
      quote_start == IF opens THEN pos + 1 ELSE st.quote_start
      inside_quotes == IF c = Quote THEN ~st.inside_quotes ELSE st.inside_quotes
      at_end == pos + 1 = Len(line)
      part_completed == (~inside_quotes /\ c = separator) \/ at_end
      add_empty == at_end /\ c = separator
      end_pos == IF at_end /\ c /= separator THEN pos + 1 ELSE pos
      part == IF quoted_word
              THEN Substr(line, quote_start, quote_end - quote_start + 1)
              ELSE Substr(line, st.start_pos, end_pos - st.start_pos)
      pushed_part == IF part_completed THEN Append(st.parts, Trim(part))
                     ELSE st.parts
  IN  [inside_quotes |-> IF part_completed THEN FALSE ELSE inside_quotes,
       quoted_word |-> IF part_completed THEN FALSE ELSE quoted_word,
       start_pos |-> IF part_completed THEN pos + 1 ELSE st.start_pos,
       quote_start |-> quote_start,
       quote_end |-> quote_end,
       parts |-> IF add_empty THEN Append(pushed_part, <<>>) ELSE pushed_part]

\* for (int pos = 0; pos < line.size(); pos++), from pos on.
RECURSIVE SplitLoop(_, _, _, _)
SplitLoop(line, separator, pos, st) ==
  IF pos >= Len(line) THEN st
  ELSE SplitLoop(line, separator, pos + 1, SplitStep(line, separator, pos, st))

\* SplitLine(line, separator, parts) on the characters of the line.
SplitLineText(line, separator) ==
  SplitLoop(line, separator, 0,
            [inside_quotes |-> FALSE, quoted_word |-> FALSE, start_pos |-> 0,
             quote_start |-> 0, quote_end |-> 0, parts |-> <<>>]).parts

TextInit ==
  /\ ClientInit /\ config_topics = {}
  /\ DecoderIdle
  /\ HeaderIdle /\ RowsIdle /\ SeriesIdle
  /\ txt_pc = "start"
  /\ txt_line \in TextLines
  /\ txt_delim = ""
  /\ txt_separator = ""
  /\ txt_parts = <<>>

\* The loader detects the delimiter from the line.
DetectDelimiterCall ==
  /\ txt_pc = "start"
  /\ txt_pc' = "detected"
  /\ txt_delim' = DetectDelimiter(txt_line)
  /\ UNCHANGED <<client, decoder, header, rows, series, txt_line,
                 txt_separator, txt_parts>>

\* The line is split at the delimiter detected, or at the comma.
SplitLineCall(separator) ==
  /\ txt_pc = "detected"
  /\ txt_pc' = "split"
  /\ txt_separator' = separator
  /\ txt_parts' = SplitLineText(txt_line, separator)
  /\ UNCHANGED <<client, decoder, header, rows, series, txt_line, txt_delim>>

TextNext ==
  \/ DetectDelimiterCall
  \/ \E separator \in {txt_delim, ","} : SplitLineCall(separator)

TextSpec == TextInit /\ [][TextNext]_vars

(***************************************************************************)
(* Part 6: StringSeries (plotjuggler_base/include/PlotJuggler/             *)
(* stringseries.h): the points hold dictionary indices, the dictionary is  *)
(* the vector _index_to_string and the map _string_to_index.               *)
(***************************************************************************)
\* StringDictIndex::INVALID = std::numeric_limits<uint32_t>::max(), the
\* largest index; the largest integer of the model checker stands for it, so
\* no dictionary of the model grows up to it.
INVALID == 2147483647

\* The strings pushed (the first is the empty string) and their timestamps.
Strings == {"", "a", "b"}
Times == {0, 1}

\* A lookup that finds nothing.
Find_Nothing(map, str) == {}

\* _string_to_index.find(_tmp_str): the entries with the key.
Find(map, str) == {e \in map : e[1] = str}

\* _string_to_index.emplace(key, value): no effect when the key is there.
Emplace(map, key, value) ==
  IF \E e \in map : e[1] = key THEN map ELSE map \cup {<<key, value>>}

\* internString(str): the index returned and the dictionary after it.
internString(str) ==
  LET it == Find(string_to_index, str) IN
  IF it /= {}
  THEN [idx |-> (CHOOSE e \in it : TRUE)[2],
        index_to_string |-> index_to_string,
        string_to_index |-> string_to_index]
  ELSE LET new_index == Len(index_to_string)
       IN  [idx |-> new_index,
            index_to_string |-> Append(index_to_string, str),
            string_to_index |-> Emplace(string_to_index, str, new_index)]

\* getString(idx) on a dictionary; the empty string_view is "".
getString(dictionary, idx) ==
  IF idx = INVALID \/ idx >= Len(dictionary) THEN ""
  ELSE dictionary[idx + 1]

\* TimeseriesBase<StringDictIndex>::pushBack(p): the point is appended.
BasePushBack(series_points, p) == Append(series_points, p)

SeriesInit ==
  /\ ClientInit /\ config_topics = {}
  /\ DecoderIdle
  /\ HeaderIdle /\ RowsIdle /\ TextIdle
  /\ points = <<>>
  /\ index_to_string = <<>>
  /\ string_to_index = {}
  /\ pushed = <<>>

\* pushBack(std::pair<double, StringRef> p) with p = (t, str); the history
\* gets the call and the place of its point (0: none).
pushBack(t, str) ==
  /\ Len(pushed) < MaxPushes
  /\ UNCHANGED <<client, decoder, header, rows, text>>
  /\ IF str = ""
     THEN /\ pushed' = Append(pushed, [t |-> t, s |-> str, at |-> 0])
          /\ UNCHANGED <<points, index_to_string, string_to_index>>
     ELSE LET r == internString(str) IN
          /\ index_to_string' = r.index_to_string
          /\ string_to_index' = r.string_to_index
          /\ points' = BasePushBack(points, [x |-> t, y |-> r.idx])
          /\ pushed' = Append(pushed, [t |-> t, s |-> str, at |-> Len(points')])

\* clear()
clear ==
  /\ pushed /= <<>>
  /\ index_to_string' = <<>>
  /\ string_to_index' = {}
  /\ points' = <<>>
  /\ pushed' = <<>>
  /\ UNCHANGED <<client, decoder, header, rows, text>>

SeriesNext ==
  \/ \E t \in Times, str \in Strings : pushBack(t, str)
  \/ clear

SeriesSpec == SeriesInit /\ [][SeriesNext]_vars

\* ------------------------------------------------------------- claims
\* A text frame that passed the JSON and protocol-version checks.
TextStep == last'.ev = "text" /\ last'.running /\ last'.version = 1

\* C1: while a request is in flight, a JSON message whose id differs from
\* pending_request_id is dropped: mode, req_in_flight, pending_request_id,
\* pending_mode, topics, parsers and both timers are unchanged, and nothing is
\* shown, sent or emitted.
C1_MismatchDropped ==
  [][(last'.ev = "text" /\ last'.in_flight /\ ~last'.id_match)
       => (UNCHANGED <<wsState, warned, dlg, config_topics>> /\ out' = NoOut)]_vars

\* C1 witness: a success or error reply to an earlier, still unanswered
\* command arrived while another request was in flight.
C1_Witness ==
  /\ last.ev = "text" /\ last.running /\ last.version = 1
  /\ last.in_flight /\ last.has_id /\ ~last.id_match
  /\ last.status \in {"success", "error"}
  /\ last.answers /= {}
  /\ req_in_flight

\* C2 (as claimed): req_in_flight implies a non-empty pending_request_id.
C2_InFlightHasId == req_in_flight => pending_request_id /= NoId

\* C3 (as claimed): at most one reply-expecting command (get_topics,
\* subscribe, pause, resume) is on the wire unanswered.
C3_AtMostOneOutstanding == Cardinality(outstanding) <= 1

C5_ShutdownStays == stopped => (~running /\ mode = "Close")

\* C6: after a disconnect, a transport error or a shutdown the client is in
\* mode Close, nothing in flight, no pending id, pending_mode Close, both
\* timers stopped, no topics and no parsers.
C6_ResetAfterClose ==
  (last.ev \in {"disconnected", "error", "shutdown", "cancel"})
    => /\ ~running
       /\ mode = "Close"
       /\ ~req_in_flight
       /\ pending_request_id = NoId
       /\ pending_mode = "Close"
       /\ ~topics_timer
       /\ ~heartbeat_timer
       /\ topics = <<>>
       /\ parsers = {}

\* C6 witness: the socket disconnected while the client was streaming.
C6_Witness ==
  /\ last.ev = "disconnected" /\ last.running /\ last.mode = "Data"
  /\ mode = "Close"

\* The reply matches the in-flight request.
MatchingReply ==
  /\ TextStep
  /\ last'.in_flight /\ last'.has_id /\ last'.id_match

\* C7 (as claimed): a matching success reply to the subscribe request that
\* carries schemas clears req_in_flight, stops the topic-refresh timer, starts
\* the heartbeat timer and sets mode = Data; the topics left are filled.
C7_SubscribeEntersData ==
  [][(MatchingReply /\ pending_mode = "Subscribe" /\ last'.status = "success"
        /\ last'.kind = "schemas")
       => /\ ~req_in_flight'
          /\ ~topics_timer'
          /\ heartbeat_timer'
          /\ mode' = "Data"
          /\ \A i \in 1..Len(topics') : topics'[i].enc /= ""]_vars

\* C8: an error reply matching the in-flight request clears req_in_flight and
\* pending_request_id, surfaces the server message, and leaves mode, topics,
\* parsers and timers as they were.
C8_ErrorClearsInFlight ==
  [][(MatchingReply /\ last'.status = "error")
       => /\ ~req_in_flight'
          /\ pending_request_id' = NoId
          /\ out'.box = {"server error"}
          /\ UNCHANGED <<mode, topics, parsers, topics_timer, heartbeat_timer>>]_vars

\* C8 witness: the subscribe request was answered with an error.
C8_Witness ==
  /\ last.ev = "text" /\ last.in_flight /\ last.has_id /\ last.id_match
  /\ last.status = "error"
  /\ mode = "Subscribe" /\ ~req_in_flight /\ topics /= <<>>

\* C9 (as claimed): pause or resume is put on the wire only in mode Data with
\* no request in flight.
C9_PauseOnlyInData ==
  (last.ev \in {"pause", "resume"} /\ out.sent /= <<>>)
    => (last.mode = "Data" /\ ~last.in_flight)

\* C10 (as claimed): in mode Data a text frame changes no client state and
\* shows nothing.
C10_TextIgnoredInData ==
  [][(last'.ev = "text" /\ last'.mode = "Data")
       => (UNCHANGED <<wsState, warned, dlg, config_topics>> /\ out' = NoOut)]_vars

\* The messages of frame n in sequence q (the sink or a snapshot of it).
Handed(q, n) == Cardinality({i \in 1..Len(q) : q[i] = n})

\* The binary slot has returned from frame dec_no.
FrameDone == dec_no > 0 /\ dec_pc = "idle"

\* C11 (as claimed): a frame whose payload decompresses to a byte count that
\* differs from the header's uncompressed_size is rejected: none of its
\* blocks is handed to a topic parser.
C11_SizeMismatchRejected ==
  (dec_frame.hdr = "ok" /\ PayloadSize(dec_frame) /= dec_frame.usize)
    => Handed(sink, dec_no) = 0

\* C12 (as claimed): a frame from which at least one block was handed to a
\* topic parser has parsed = message_count and was consumed exactly to the
\* end of its payload (no cut-off block).
C12_NoPartialCommit ==
  (FrameDone /\ Handed(sink, dec_no) > 0)
    => /\ dec_parsed = dec_frame.count
       /\ dec_q = Len(dec_frame.blocks)
       /\ dec_frame.tail = 0

\* The protocol errors of binary frame f for parser table ps: shorter than
\* the header, bad magic, non-zero flags, ZSTD failure, decompressed size or
\* block count different from the header's, a block for an unknown topic.
FrameProtocolError(f, ps) ==
  \/ f.hdr \in {"short", "magic", "flags", "corrupt"}
  \/ /\ f.hdr = "ok"
     /\ \/ f.usize /= PayloadSize(f)
        \/ f.count /= Len(f.blocks)
        \/ \E i \in 1..Len(f.blocks) : f.blocks[i].topic \notin ps

\* C13 (as claimed): a binary frame with a protocol error, a reply whose
\* protocol_version is not 1 and an error-status reply leave the client
\* running, in the same mode, with the socket as it was.
C13_ProtocolErrorsRecoverable ==
  [][(/\ running
      /\ \/ dec_pc' /= "idle" /\ FrameProtocolError(dec_frame', parsers)
         \/ dec_pc /= "idle" /\ FrameProtocolError(dec_frame, parsers)
         \/ last'.ev = "text" /\ (last'.version /= 1 \/ last'.status = "error"))
       => (running' /\ mode' = mode /\ sock' = sock)]_vars

\* createParser throws for one of the topics the subscribe reply leaves.
FactoryThrows ==
  CreateParsers(topics', 1, [parsers |-> parsers, warned |-> warned,
                             box |-> {}, thrown |-> FALSE]).thrown

\* C14 (as claimed): when the parser factory throws while the parsers are
\* created for a successful subscribe reply, the client tears itself down
\* (mode Close, not running, timers stopped, no topics, no parsers) and the
\* host is notified with closed().
C14_FactoryExceptionTearsDown ==
  [][(MatchingReply /\ pending_mode = "Subscribe" /\ last'.status = "success"
        /\ last'.kind = "schemas" /\ FactoryThrows)
       => /\ alive'
          /\ mode' = "Close"
          /\ ~running'
          /\ ~topics_timer' /\ ~heartbeat_timer'
          /\ topics' = <<>> /\ parsers' = {}
          /\ "closed" \in out'.sig]_vars

\* C15: the decoder owns the mutex whenever it is inside the block loop, and
\* a consumer snapshot holds, of every frame, either no message or all the
\* messages the finished frame handed to the parsers.
C15_FrameAtomicForConsumer ==
  /\ dec_pc = "loop" => mutex = "decoder"
  /\ \A n \in 1..dec_no :
        \/ Handed(snapshot, n) = 0
        \/ /\ n < dec_no \/ FrameDone
           /\ Handed(snapshot, n) = Handed(sink, n)

\* C15 witness: the consumer has copied both messages of the first frame and
\* its copy is older than the second frame, which is half-way through its
\* two blocks.
C15_Witness ==
  /\ dec_no = 2 /\ dec_pc = "loop" /\ dec_q = 1
  /\ Handed(snapshot, 1) = 2
  /\ Handed(sink, 2) = 1
  /\ Handed(snapshot, 2) = 0

\* C16 (as claimed): ParseHeaderLine returns one name per header field, every
\* name non-empty and all names pairwise distinct.
C16_HeaderNamesUnique ==
  hdr_pc \in {"parsed", "again"}
    => /\ Len(hdr_names) = Len(SplitLine(hdr_slices))
       /\ \A i \in 1..Len(hdr_names) : hdr_names[i] /= <<>>
       /\ \A i, j \in 1..Len(hdr_names) :
            i /= j => hdr_names[i] /= hdr_names[j]

\* C17 (as claimed): the DUPLICATE_COLUMN_NAMES warning is in the result if
\* and only if the duplicate-suffix step changed at least one name.
C17_WarningIffSuffixAdded ==
  hdr_pc \in {"parsed", "again"}
    => (hdr_warned <=> hdr_names /= ColumnNames(SplitLine(hdr_slices)))

\* C18 (as claimed): normalizing the header formed from the names returned
\* by ParseHeaderLine returns those names unchanged.
C18_NormalizationIdempotent ==
  hdr_pc = "again" => hdr_again = hdr_names

\* C19 (as claimed): when ParseCsvData returns, after the end of the input or
\* after a cancellation, lines_processed + lines_skipped is the number of
\* non-empty data lines the row loop met.
C19_LinesAccounted ==
  csv_pc = "done"
    => result.lines_processed + result.lines_skipped = csv_seen.nonempty

\* The warnings of a type.
Warnings(type) ==
  {i \in 1..Len(result.warnings) : result.warnings[i].type = type}

\* Some parsed timestamp is less than the parsed timestamp before it.
TimeWentBack ==
  \E i \in 2..Len(csv_seen.stamps) : csv_seen.stamps[i] < csv_seen.stamps[i - 1]

\* C20: the result holds at most one NON_MONOTONIC_TIME warning;
\* time_is_non_monotonic is true iff the warning is there, which is so
\* exactly when a parsed row timestamp is less than the parsed timestamp
\* before it; and every row with a parsed timestamp is emitted.
C20_NonMonotonicOnce ==
  csv_pc \in {"rows", "done"}
    => /\ Cardinality(Warnings("NON_MONOTONIC_TIME")) <= 1
       /\ result.time_is_non_monotonic
            <=> Warnings("NON_MONOTONIC_TIME") /= {}
       /\ result.time_is_non_monotonic <=> TimeWentBack
       /\ Len(csv_seen.stamps) > 0 => samplecount = Len(csv_seen.stamps)

\* C20 witness: the time went back twice (2, 1, 0); one warning, on the
\* second row, and the three rows are in the value column.
C20_Witness ==
  /\ csv_pc = "done" /\ result.success
  /\ csv_seen.stamps = <<2, 1, 0>>
  /\ Cardinality(Warnings("NON_MONOTONIC_TIME")) = 1
  /\ result.time_is_non_monotonic
  /\ Len(result.numeric_points[1]) = 3

\* The step is one iteration of the row loop on a row of two cells.
RowRead == csv_seen'.lines = csv_seen.lines + 1 /\ csv_seen'.line.kind = "row"

\* The last warning of the result is of the type, for the line.
LastWarning(res, type, line_number) ==
  /\ Len(res.warnings) > 0
  /\ res.warnings[Len(res.warnings)] = CsvParseWarning(type, line_number)

\* C21: with a combined pair selected and time_column_index >= 0, also with
\* a custom time format, the timestamp of every row is the combined date and
\* time; a row whose combined parse fails is skipped with INVALID_TIMESTAMP
\* and the time column is not used for it.
C21_CombinedWins ==
  [][(csv_config.combined /\ csv_config.time_column_index >= 0 /\ RowRead)
       => LET parts == csv_seen'.line.parts
              ts == ParseCombinedDateTime(Part(parts, 0), Part(parts, 1),
                                          column_types'[0], column_types'[1])
          IN  IF ts.ok
              THEN /\ samplecount' = samplecount + 1
                   /\ csv_seen'.stamps = Append(csv_seen.stamps, ts.v)
                   /\ prev_time' = ts.v
                   /\ result'.lines_skipped = result.lines_skipped
              ELSE /\ samplecount' = samplecount
                   /\ csv_seen'.stamps = csv_seen.stamps
                   /\ prev_time' = prev_time
                   /\ result'.lines_skipped = result.lines_skipped + 1
                   /\ LastWarning(result', "INVALID_TIMESTAMP", linenumber')]_vars

\* C21 witness: combined pair, time column 0 and a custom format; the row
\* (day 0, time 1) got the timestamp 1, and the row (day 1, no time), whose
\* date the time column alone would parse, was skipped.
C21_Witness ==
  /\ csv_config.combined /\ csv_config.time_column_index = 0
  /\ csv_config.custom_time_format
  /\ csv_seen.stamps = <<1>> /\ samplecount = 1
  /\ csv_seen.line = [kind |-> "row", parts |-> <<Cell("date", 1), EmptyCell>>]
  /\ result.lines_skipped = 1
  /\ LastWarning(result, "INVALID_TIMESTAMP", linenumber)

\* C22: when a combined pair is selected, its date column and its time
\* column are in combined_component_indices and hold no numeric point and no
\* string point, after any number of rows.
C22_ComponentsHoldNoPoints ==
  (csv_seen.header /\ csv_config.combined)
    => /\ result.combined_component_indices = {0, 1}
       /\ \A i \in result.combined_component_indices :
             /\ result.numeric_points[i] = <<>>
             /\ result.string_points[i] = <<>>

\* C22 witness: two rows with a combined timestamp were emitted, the parse
\* ended, and the two component columns are empty.
C22_Witness ==
  /\ csv_config.combined /\ csv_pc = "done" /\ result.success
  /\ samplecount = 2 /\ csv_seen.stamps = <<1, 2>>
  /\ result.numeric_points[0] = <<>> /\ result.string_points[1] = <<>>

\* The step is one iteration of the row loop, on any line.
LineRead == csv_seen'.lines = csv_seen.lines + 1

\* C23 (as claimed): with a progress callback, every line whose number is a
\* multiple of 100 gets one call of the callback, whatever the line holds,
\* and the parse is cancelled only by such a call.
C23_ProgressEveryHundredLines ==
  [][/\ (csv_config.progress /\ LineRead /\ linenumber' % ProgressPeriod = 0)
          => csv_seen'.calls = Append(csv_seen.calls, linenumber')
     /\ (csv_seen'.cancelled /\ ~csv_seen.cancelled)
          => csv_seen'.calls = Append(csv_seen.calls, linenumber')]_vars

\* q is the beginning of r.
IsPrefix(q, r) == Len(q) <= Len(r) /\ SubSeq(r, 1, Len(q)) = q

\* C24: when the progress callback returns false, ParseCsvData returns at
\* once with success = false and the partial result: the points and the
\* warnings of the rows up to there are in it, and nothing is read or
\* appended after it.
C24_CancelReturnsPartial ==
  [][/\ (csv_seen'.cancelled /\ ~csv_seen.cancelled)
          => /\ csv_pc' = "done"
             /\ result'.success = FALSE
             /\ IsPrefix(result.warnings, result'.warnings)
             /\ \A i \in Columns :
                   /\ IsPrefix(result.numeric_points[i], result'.numeric_points[i])
                   /\ IsPrefix(result.string_points[i], result'.string_points[i])
     /\ csv_seen.cancelled
          => /\ result' = result
             /\ csv_seen' = csv_seen
             /\ csv_pc' = "done"]_vars

\* C24 witness: the callback cancelled at line 100; the two rows read up to
\* there are in the value column and the result is not a success.
C24_Witness ==
  /\ csv_seen.cancelled /\ csv_seen.calls = <<ProgressPeriod>>
  /\ csv_pc = "done" /\ ~result.success
  /\ samplecount = 2 /\ Len(result.numeric_points[1]) = 2
  /\ ~ENABLED CsvNext

\* C25: ParseCsvData returns success = true iff a header line was read (the
\* input has more than skip_rows lines) and the parse was not cancelled,
\* whatever warnings the header and the rows gave; without a header the
\* result has no columns.
C25_SuccessIffHeaderAndNotCancelled ==
  csv_pc = "done"
    => /\ result.success <=> (csv_seen.header /\ ~csv_seen.cancelled)
       /\ ~csv_seen.header => (result.columns = {} /\ result.warnings = <<>>)

\* C25 witness: a header with duplicate names, then a line with a wrong
\* number of fields and a row; the parse ended as a success with the two
\* warnings.
C25_Witness ==
  /\ csv_pc = "done" /\ result.success /\ result.columns = Columns
  /\ Warnings("DUPLICATE_COLUMN_NAMES") /= {}
  /\ Warnings("WRONG_COLUMN_COUNT") /= {}
  /\ result.lines_skipped = 1 /\ result.lines_processed = 1

\* Position i of the line lies outside the double-quoted spans.
OutsideQuotes(line, i) ==
  Cardinality({j \in 1..(i - 1) : line[j] = Quote}) % 2 = 0

\* The count of a candidate: its occurrences outside quoted spans, for the
\* space the runs of consecutive spaces outside quoted spans.
CandidateCount(line, d) ==
  Cardinality({i \in 1..Len(line) :
                 /\ line[i] = d /\ OutsideQuotes(line, i)
                 /\ d = " " => (i = 1 \/ line[i - 1] /= " ")})

CandidateThreshold(d) == IF d = " " THEN 2 ELSE 1

CandidatePriority(d) ==
  CASE d = Tab -> 4 [] d = ";" -> 3 [] d = "," -> 2 [] OTHER -> 1

\* The candidates that meet their threshold.
Qualified(line) ==
  {d \in {Tab, ";", ",", " "} : CandidateCount(line, d) >= CandidateThreshold(d)}

\* C26: DetectDelimiter returns the candidate with the highest count outside
\* quoted spans among those meeting their threshold (1, for the space 2
\* runs), ties broken by the priority tab > ';' > ',' > space, and ',' if no
\* candidate meets its threshold.
C26_DetectDelimiterPicksBest ==
  txt_pc \in {"detected", "split"}
    => IF Qualified(txt_line) = {}
       THEN txt_delim = ","
       ELSE /\ txt_delim \in Qualified(txt_line)
            /\ \A e \in Qualified(txt_line) \ {txt_delim} :
                  \/ CandidateCount(txt_line, txt_delim) > CandidateCount(txt_line, e)
                  \/ /\ CandidateCount(txt_line, txt_delim) = CandidateCount(txt_line, e)
                     /\ CandidatePriority(txt_delim) > CandidatePriority(e)

\* C26 witness: one ';' and one ',' outside quotes and a tab inside quotes:
\* the tie goes to ';'.
C26_Witness ==
  /\ txt_pc = "detected"
  /\ txt_line = <<";", ",", Quote, Tab>>
  /\ txt_delim = ";"

\* The separators that end a field: those outside quoted spans.
FieldEnds(line, separator) ==
  {i \in 1..Len(line) : line[i] = separator /\ OutsideQuotes(line, i)}

\* The position before field k and the position after it (fields from 1).
FieldLow(line, separator, k) ==
  IF k = 1 THEN 0
  ELSE CHOOSE i \in FieldEnds(line, separator) :
         Cardinality({j \in FieldEnds(line, separator) : j < i}) = k - 2

FieldHigh(line, separator, k) ==
  IF k = Cardinality(FieldEnds(line, separator)) + 1 THEN Len(line) + 1
  ELSE CHOOSE i \in FieldEnds(line, separator) :
         Cardinality({j \in FieldEnds(line, separator) : j < i}) = k - 1

\* The quotes of field k, and those among them that close a span.
FieldQuotes(line, separator, k) ==
  {i \in (FieldLow(line, separator, k) + 1)..(FieldHigh(line, separator, k) - 1) :
     line[i] = Quote}

ClosingQuotes(line, separator, k) ==
  {i \in FieldQuotes(line, separator, k) :
     Cardinality({j \in FieldQuotes(line, separator, k) : j <= i}) % 2 = 0}

Least(S) == CHOOSE i \in S : \A j \in S : i <= j
Greatest(S) == CHOOSE i \in S : \A j \in S : j <= i

\* C27 (as claimed): SplitLine ends a field only at a separator outside
\* quotes, and for a field with a quoted span, also with several of them, the
\* part is the trimmed text between the first opening quote and the last
\* closing quote of the field.
C27_QuotedFieldValue ==
  (txt_pc = "split" /\ txt_line /= <<>>)
    => /\ Len(txt_parts) = Cardinality(FieldEnds(txt_line, txt_separator)) + 1
       /\ \A k \in 1..Len(txt_parts) :
             ClosingQuotes(txt_line, txt_separator, k) /= {}
               => txt_parts[k] =
                    Trim(SubSeq(txt_line,
                                Least(FieldQuotes(txt_line, txt_separator, k)) + 1,
                                Greatest(ClosingQuotes(txt_line, txt_separator, k)) - 1))

\* Call k of the history stored a point at its time whose index resolves to
\* its string.
Stored(k) ==
  /\ pushed[k].at \in 1..Len(points)
  /\ points[pushed[k].at].x = pushed[k].t
  /\ getString(index_to_string, points[pushed[k].at].y) = pushed[k].s

\* index_to_string and string_to_index are inverse to each other: equal
\* strings share an index and distinct strings have distinct indices.
Inverse ==
  /\ \A i \in 1..Len(index_to_string) :
        <<index_to_string[i], i - 1>> \in string_to_index
  /\ \A e \in string_to_index :
        e[2] < Len(index_to_string) /\ index_to_string[e[2] + 1] = e[1]
  /\ \A i, j \in 1..Len(index_to_string) :
        index_to_string[i] = index_to_string[j] => i = j

\* getString of the invalid index and of indices past the dictionary is
\* empty.
InvalidIsEmpty ==
  /\ getString(index_to_string, INVALID) = ""
  /\ \A i \in Len(index_to_string)..(MaxPushes + 1) :
        getString(index_to_string, i) = ""

\* A pushBack call leaves every assigned index resolving to its string.
IndicesStable ==
  Len(pushed') = Len(pushed) + 1
    => \A i \in 0..(Len(index_to_string) - 1) :
          getString(index_to_string', i) = getString(index_to_string, i)

EmptyPushStoresNothing ==
  (Len(pushed') = Len(pushed) + 1 /\ pushed'[Len(pushed')].s = "")
    => UNCHANGED <<points, index_to_string, string_to_index>>

C29_TopicsRefreshOnlyWhenIdle ==
  [][/\ (last'.ev = "topics_tick" /\ out'.sent /= <<>>)
          => /\ running /\ mode = "GetTopics" /\ ~req_in_flight
             /\ out'.sent = <<"get_topics">>
             /\ req_in_flight'
             /\ pending_mode' = "GetTopics"
             /\ pending_request_id' = next_id /\ pending_request_id' /= NoId
             /\ [id |-> pending_request_id', cmd |-> "get_topics"] \in outstanding'
     /\ "get_topics" \in Range(out'.sent)
          => /\ mode' = "GetTopics"
             /\ last'.ev \in {"topics_tick", "connected"}]_vars

\* C29 witness: a timer tick in mode GetTopics with nothing in flight has
\* sent get_topics and the request is pending.
C29_Witness ==
  /\ last.ev = "topics_tick" /\ last.mode = "GetTopics" /\ ~last.in_flight
  /\ out.sent = <<"get_topics">>
  /\ req_in_flight /\ pending_mode = "GetTopics" /\ pending_request_id /= NoId

\* C30: subscribe is sent only by a confirm while running, in mode
\* GetTopics, with no request in flight and a topic selected; the send sets
\* mode Subscribe and req_in_flight and makes the id sent the pending id,
\* with pending_mode Subscribe; a confirm in another state sends nothing and
\* changes nothing.
C30_SubscribeOnlyWhenIdleAndSelected ==
  [][/\ "subscribe" \in Range(out'.sent)
          => /\ last'.ev = "ok_subscribe"
             /\ running /\ mode = "GetTopics" /\ ~req_in_flight /\ selected /= {}
             /\ out'.sent = <<"subscribe">>
             /\ mode' = "Subscribe" /\ req_in_flight'
             /\ pending_mode' = "Subscribe"
             /\ pending_request_id' = next_id /\ pending_request_id' /= NoId
             /\ [id |-> pending_request_id', cmd |-> "subscribe"] \in outstanding'
     /\ (last'.ev = "ok_subscribe"
           /\ ~(running /\ mode = "GetTopics" /\ ~req_in_flight /\ selected /= {}))
          => /\ out'.sent = <<>>
             /\ UNCHANGED <<core, config_topics, dlg, net>>]_vars

\* C30 witness: a confirm in mode GetTopics with nothing in flight has sent
\* subscribe; the dialog is closed and the request is pending.
C30_Witness ==
  /\ last.ev = "ok_subscribe" /\ last.mode = "GetTopics" /\ ~last.in_flight
  /\ out.sent = <<"subscribe">>
  /\ mode = "Subscribe" /\ req_in_flight
  /\ pending_mode = "Subscribe" /\ pending_request_id /= NoId
  /\ ~dialog /\ config_topics /= {}

\* Frame f is well-formed.
WellFormed(f) == f.hdr = "ok" /\ Deviations(f) = 0

\* How many of the first k blocks of bs have their topic in ps.
Registered(bs, k, ps) == Cardinality({i \in 1..k : bs[i].topic \in ps})

\* C31: of a well-formed frame the blocks are processed in payload order, one
\* per step, and each is counted: a block whose topic has a registered
\* parser is handed once, to that parser, with its bytes and its log time in
\* seconds; a block of a topic without parser is handed to nobody, and the
\* blocks after it are still delivered: when the frame is done with the
\* client running, every block was counted and as many messages were handed
\* as blocks have a parser.
C31_FanOutInPayloadOrder ==
  /\ [][(WellFormed(dec_frame) /\ dec_pc = "loop" /\ dec_q' /= dec_q)
          => /\ dec_q' = dec_q + 1
             /\ dec_parsed' = dec_parsed + 1
             /\ LET b == dec_frame.blocks[dec_q'] IN
                IF b.topic \in parsers
                THEN /\ sink' = Append(sink, dec_no)
                     /\ dec_call'
                          = <<[parser |-> b.topic,
                               ts_sec |-> <<LogTimeNs(dec_frame.blocks, dec_q'),
                                            NanosPerSecond>>,
                               cdr |-> Cdr(dec_frame.blocks, dec_q')]>>
                ELSE sink' = sink /\ dec_call' = <<>>]_vars
  /\ []((FrameDone /\ WellFormed(dec_frame) /\ running)
          => /\ dec_parsed = Len(dec_frame.blocks)
             /\ Handed(sink, dec_no)
                  = Registered(dec_frame.blocks, Len(dec_frame.blocks), parsers))

\* C31 witness: a well-formed frame of two blocks, the first of a topic
\* without parser, is done: the second block alone was handed, with its
\* bytes, and both were counted.
C31_Witness ==
  /\ FrameDone /\ WellFormed(dec_frame) /\ running
  /\ Len(dec_frame.blocks) = 2
  /\ dec_frame.blocks[1].topic \notin parsers
  /\ dec_frame.blocks[2].topic \in parsers
  /\ dec_parsed = 2
  /\ Handed(sink, dec_no) = 1
  /\ dec_call /= <<>>
  /\ dec_call[1].cdr = Cdr(dec_frame.blocks, 2)

\* C32: during the row loop the type of a column changes only from UNDEFINED
\* to a defined type, on a row of the header's width whose cell in that
\* column is non-empty; a column still UNDEFINED is typed by the first such
\* row, also when earlier rows had the cell empty; a typed column keeps its
\* type on every later row, and the types stored at the end are these.
C32_TypeSetOnceOnFirstNonEmptyCell ==
  /\ [][csv_pc = "rows" =>
          \A i \in Columns :
            /\ column_types'[i] /= column_types[i]
                 => /\ column_types[i] = "UNDEFINED"
                    /\ column_types'[i] /= "UNDEFINED"
                    /\ LineRead /\ csv_seen'.line.kind = "row"
                    /\ Part(csv_seen'.line.parts, i) /= EmptyCell
            /\ (LineRead /\ csv_seen'.line.kind = "row"
                  /\ Part(csv_seen'.line.parts, i) /= EmptyCell)
                 => column_types'[i] /= "UNDEFINED"]_vars
  /\ [](result.success => result.detected_type = column_types)

\* C32 witness: two rows were emitted, the first with an empty cell in column
\* 1 and a value in column 0, the second with a value in both: column 1 got
\* its type from the second row, and a string cell of the second row left the
\* NUMBER type of column 0 as it was.
C32_Witness ==
  /\ csv_pc = "rows"
  /\ csv_config.time_column_index = -1 /\ ~csv_config.combined
  /\ csv_seen.lines = 2 /\ samplecount = 2
  /\ Len(result.numeric_points[0]) = 1 /\ Len(result.string_points[0]) = 1
  /\ Len(result.numeric_points[1]) + Len(result.string_points[1]) = 1
  /\ csv_seen.line.parts[1].k = "str"
  /\ csv_seen.line.parts[2] /= EmptyCell
  /\ column_types[0] = "NUMBER"
  /\ column_types[1] /= "UNDEFINED"

\* The number, counted from 1 at the start of the input, of the line the
\* step has read: the skipped rows and the header come before the data lines.
InputLineNumber == csv_config.skip_rows + 1 + csv_seen'.lines

\* The step leaves the points of every column as they are.
NoPointAdded ==
  /\ result'.numeric_points = result.numeric_points
  /\ result'.string_points = result.string_points

\* The step adds the one warning of the type for the line read, and counts
\* one skipped line.
SkippedWith(type) ==
  /\ result'.warnings
       = Append(result.warnings, [type |-> type, line_number |-> InputLineNumber])
  /\ result'.lines_skipped = result.lines_skipped + 1

\* C33: a line with another number of fields than the header, and a row that
\* is not emitted (its timestamp is invalid), add no point, add exactly one
\* warning, WRONG_COLUMN_COUNT or INVALID_TIMESTAMP, with the line's number
\* counted from the start of the input, and count one skipped line; a line
\* without fields changes neither the result nor the row counter.
C33_SkippedRows ==
  [][LineRead =>
       /\ csv_seen'.line.kind = "wrong"
            => NoPointAdded /\ SkippedWith("WRONG_COLUMN_COUNT")
                 /\ samplecount' = samplecount
       /\ (csv_seen'.line.kind = "row" /\ samplecount' = samplecount)
            => NoPointAdded /\ SkippedWith("INVALID_TIMESTAMP")
       /\ csv_seen'.line.kind = "empty"
            => result' = result /\ samplecount' = samplecount]_vars

\* C33 witness: below a header that follows skipped rows, a line of the wrong
\* width, an empty line and a row with an invalid timestamp were read: two
\* warnings with the line numbers of the first and the third, two skipped.
C33_Witness ==
  /\ csv_config.skip_rows > 0
  /\ csv_seen.lines = 3 /\ csv_seen.line.kind = "row"
  /\ samplecount = 0
  /\ result.lines_skipped = 2
  /\ result.warnings
       = <<[type |-> "WRONG_COLUMN_COUNT",
            line_number |-> csv_config.skip_rows + 2],
           [type |-> "INVALID_TIMESTAMP",
            line_number |-> csv_config.skip_rows + 4]>>

\* The step is one iteration of the row loop that emits its row.
RowEmitted == RowRead /\ samplecount' = samplecount + 1

\* The timestamp of the row the step emits: the one parsed from it, or its
\* row index when none is parsed.
RowTimestamp ==
  IF Len(csv_seen'.stamps) > Len(csv_seen.stamps)
  THEN csv_seen'.stamps[Len(csv_seen'.stamps)]
  ELSE samplecount

\* C34: an emitted row appends, to each column that is no component of the
\* combined pair and whose cell is non-empty (its type is then defined),
\* exactly one point with the row's timestamp, at the end of the column's
\* points: a numeric point when the column's type is not STRING and the cell
\* parses as that type, else a string point with the cell; never both, and
\* nothing for a component column or an empty cell.
C34_OnePointPerCell ==
  [][RowEmitted =>
       \A i \in Columns :
         LET cell == Part(csv_seen'.line.parts, i)
             type == column_types'[i]
             np == result.numeric_points[i]
             sp == result.string_points[i]
             np1 == result'.numeric_points[i]
             sp1 == result'.string_points[i]
         IN  IF i \in result.combined_component_indices \/ cell = EmptyCell
             THEN np1 = np /\ sp1 = sp
             ELSE /\ type /= "UNDEFINED"
                  /\ IF type /= "STRING" /\ ParseWithType(cell, type).ok
                     THEN /\ np1 = Append(np, <<RowTimestamp,
                                                ParseWithType(cell, type).v>>)
                          /\ sp1 = sp
                     ELSE /\ sp1 = Append(sp, <<RowTimestamp, cell>>)
                          /\ np1 = np]_vars

\* C34 witness: with the row index as time, column 0 of type NUMBER has the
\* number of row 0 as numeric point and the text of row 1 as string point,
\* and column 1, empty in row 1, has the one point of row 0.
C34_Witness ==
  /\ csv_config.time_column_index = -1 /\ ~csv_config.combined
  /\ samplecount = 2
  /\ column_types[0] = "NUMBER"
  /\ Len(result.numeric_points[0]) = 1 /\ result.numeric_points[0][1][1] = 0
  /\ result.string_points[0] = << <<1, Cell("str", 0)>> >>
  /\ csv_seen.line.parts[2] = EmptyCell
  /\ Len(result.numeric_points[1]) + Len(result.string_points[1]) = 1

\* The row index is the time: no combined pair and no time column.
RowIndexTime == ~csv_config.combined /\ csv_config.time_column_index = -1

\* The number of rows emitted so far: the non-empty lines that were not
\* skipped.
Emitted == csv_seen.nonempty - result.lines_skipped

\* The timestamps of the points the step appends to the columns.
AppendedTimes ==
  UNION {{result'.numeric_points[i][k][1] :
            k \in (Len(result.numeric_points[i]) + 1)
                    ..Len(result'.numeric_points[i])}
         \cup
         {result'.string_points[i][k][1] :
            k \in (Len(result.string_points[i]) + 1)
                    ..Len(result'.string_points[i])} : i \in Columns}

\* C35: with the row index as time, every row of the header's width is
\* emitted, and the points of the n-th emitted row (n from 0) carry the
\* timestamp n, whatever empty lines and lines of another width came before
\* it; no INVALID_TIMESTAMP and no NON_MONOTONIC_TIME warning is produced.
C35_RowIndexTime ==
  /\ [][(RowIndexTime /\ RowRead)
          => /\ RowEmitted
             /\ AppendedTimes \subseteq {Emitted}
             /\ Emitted' = Emitted + 1]_vars
  /\ [][(RowIndexTime /\ LineRead /\ ~RowRead)
          => AppendedTimes = {} /\ Emitted' = Emitted]_vars
  /\ [](RowIndexTime
          => /\ Warnings("INVALID_TIMESTAMP") = {}
             /\ Warnings("NON_MONOTONIC_TIME") = {}
             /\ ~result.time_is_non_monotonic)

\* C35 witness: a row, then a line of another width, then a row: the points
\* of column 0 carry the timestamps 0 and 1.
C35_Witness ==
  /\ RowIndexTime
  /\ csv_seen.lines = 3 /\ csv_seen.nonempty = 3
  /\ result.lines_skipped = 1
  /\ Warnings("WRONG_COLUMN_COUNT") = {1}
  /\ Len(result.numeric_points[0]) = 2
  /\ result.numeric_points[0][1][1] = 0
  /\ result.numeric_points[0][2][1] = 1

\* The handlers of incoming frames and of the two timers.
GuardedHandlers == {"text", "binary", "topics_tick", "heartbeat_tick"}

C38_SubscribeHasRequestInFlight ==
  /\ [](mode = "Subscribe" => req_in_flight)
  /\ [][(/\ last'.ev = "text" /\ last'.running
         /\ last'.mode = "Subscribe" /\ last'.in_flight
         /\ last'.has_id /\ last'.id_match /\ last'.version = 1
         /\ last'.status \in {"success", "error"})
          => mode' /= "Subscribe"]_vars

\* C39 (as claimed): whenever the socket reports the disconnect while the
\* client is running and no dialog is open, the user is told that the server
\* closed the connection; the _closing flag of a shutdown is false again
\* when the client runs the next time.
C39_ServerCloseAlwaysWarned ==
  /\ [][(last'.ev = "disconnected" /\ running /\ ~dialog)
          => "Server closed the connection" \in out'.box]_vars
  /\ [](running => ~closing)

\* What the row the step reads gives when the rows skipped before it are
\* absent from the input: the column types come from the emitted rows alone.
AloneTypes == DetectTypes(csv_seen.kept, csv_seen'.line.parts)

AloneTimestamp ==
  Timestamp(csv_config, csv_seen'.line.parts, AloneTypes, samplecount)

\* C40 (as claimed): the rows skipped before a row do not change how it is
\* parsed: it is skipped or emitted, and when emitted gets its column types,
\* its timestamp and its points, as it does when those rows are absent.
C40_SkippedRowsLeaveNoTrace ==
  [][RowRead =>
       /\ RowEmitted <=> ~AloneTimestamp.skip
       /\ RowEmitted =>
            /\ column_types' = AloneTypes
            /\ \A i \in Columns :
                 /\ result'.numeric_points[i]
                      = result.numeric_points[i]
                          \o NumericPoint(csv_config, csv_seen'.line.parts,
                                          AloneTypes, i, AloneTimestamp.v)
                 /\ result'.string_points[i]
                      = result.string_points[i]
                          \o StringPoint(csv_config, csv_seen'.line.parts,
                                         AloneTypes, i, AloneTimestamp.v)]_vars

====
